---- MODULE Spec2Model ----
(***************************************************************************)
(* A model of the scan path of the DuckDB Oracle connector:                *)
(*   - OracleConnectionPool and its callers (oracle_connection.cpp,        *)
(*     oracle_schema_entry.cpp, oracle_table_entry.cpp, oracle_extension); *)
(*   - OracleScan::InitGlobal / InitLocal / Scan (oracle_scan.cpp) and the *)
(*     fetch loop of OracleConnection::ExecuteQuery;                       *)
(*   - OracleFilterPushdown (oracle_optimizer.cpp);                        *)
(*   - the statement builder, the type mapping and the cell conversion;    *)
(*   - OracleCatalog and OracleSchemaEntry with their caches;              *)
(*   - the dictionary reads, the statement texts, the connection strings,  *)
(*     the driver context and the mutex of a connection;                   *)
(*   - the narrowing of NUMBER cells to 64 bits, the columns and cells of  *)
(*     a result, the order in which the mutexes are taken, and the         *)
(*     statement each operation of a connection prepares and releases.     *)
(* Connections are identified by small integers; the id of a destroyed     *)
(* connection may be given to a connection opened later, as an address is. *)
(* Result rows are identified by their position in Oracle's fetch order.   *)
(***************************************************************************)
EXTENDS Integers, Sequences, FiniteSets, TLC

\* ---------------------------------------------------------------- bounds

\* Number of host threads that call into the connector.
NumThreads == 2
\* Largest max_connections the pool is constructed with.
MaxCap == 2
\* Largest number of rows in the Oracle result of the scanned table.
MaxRows == 3
\* Rows per chunk (DuckDB's STANDARD_VECTOR_SIZE, scaled down).
STANDARD_VECTOR_SIZE == 2
\* Number of delivered chunks the per-scan history keeps.
MaxHist == 2

Threads == 1..NumThreads
\* The model runs one table scan at a time (OracleScanGlobalState: one task,
\* max_threads = 1, so one local state), on this thread. Every thread makes
\* metadata calls; to the pool, the Acquire of a second scan's InitLocal or
\* Scan is the Acquire of one more caller.
ScanThread == CHOOSE t \in Threads : \A u \in Threads : t <= u
NoConn == 0
ConnIds == 1..(2 * NumThreads + MaxCap)

VARIABLES
    max_connections_,   \* OracleConnectionPool::max_connections_
    pool_,              \* OracleConnectionPool::pool_ (idle connections)
    pc,                 \* per thread: "idle", "meta", "global", "scan",
                        \* "failed" (its scan raised an error)
    conn,               \* per thread: the `conn` local of a metadata caller
    gstate,             \* per thread: OracleScanGlobalState of its scan
    local,              \* per thread: OracleScanLocalState of its scan
    tableRows,          \* number of rows Oracle returns for the scan's SELECT
    delivered,          \* chunks the scan handed to the host
    last,               \* what the scan's last scan() call did (observation)
    poolOp,             \* outcome of the last pool operation (observation)
    bind_filters,       \* OracleScanBindData::filters (rendered fragments)
    filters,            \* the host's filter list, as ComplexFilter left it
    required,           \* every filter the host asked of the scan (observation)
    input,              \* `filters` as the last ComplexFilter call got it
    before,             \* bind_data.filters as that call found it
    tree,               \* an expression tree handed to ExpressionToSQL
    rendered,           \* what ExpressionToSQL returned for it
    column_ids,         \* OracleScanBindData::column_ids
    limit,              \* OracleScanBindData::limit
    offset,             \* OracleScanBindData::offset
    oracle_major_version, \* OracleScanBindData::oracle_major_version
    projection,         \* the column ids the host initialised the scan with
    query,               \* the statement BuildSelectQuery returned
    column,             \* OracleColumnInfo: the descriptor being mapped
    duck_type,          \* LogicalType ToDuckDBType returned for col
    ddl,                \* the string ToOracleType returned for duck_type
    cell,               \* dpiData: the cell being converted
    native_type,        \* dpiNativeTypeNum of the cell
    target_type,        \* LogicalType the cell converts to
    zone,               \* the process's local time zone, seconds east of UTC
    converted,          \* duckdb::Value ToDuckDBValue returned
    schema_cache_,      \* OracleCatalog::schema_cache_: upper-cased name ->
                        \* schema entry (NoEntry: no entry under the name)
    table_cache_,       \* per schema entry: OracleSchemaEntry::table_cache_
    next_entry,         \* the next schema entry object to be constructed
    lookup_name,        \* per thread: `upper` of its GetSchema call
    schema_ptr,         \* per thread: the entry its last GetSchema returned
    apart,              \* per thread: its GetSchema call has not overlapped
                        \* a ClearCache call so far (observation)
    returned,           \* per upper-cased name: the entries GetSchema calls
                        \* returned since the last ClearCache (observation)
    lastOp,             \* the catalog operation that acted last (observation)
    table_map,          \* OracleSchemaEntry::table_cache_ of one schema entry:
                        \* upper-cased table name -> table entry
    load,               \* per thread: its GetOrLoadTable call
    column_reads,       \* per table name: list_columns reads made so far
    next_table,         \* the next table entry object to be constructed
    lastLoad,           \* the metadata operation that acted last (observation)
    cached_schemas,     \* the keys of an Oracle catalog's schema_cache_
    fn_call,            \* the last oracle_clear_cache call: per row of its
                        \* argument chunk, what the row function did (observation)
    emitted,            \* the last statement text the connector built, with
                        \* the places of the string values in it (observation)
    params,             \* an OracleConnectionParameters value
    connect_string,     \* what BuildConnectString returned for it
    parsed,             \* what ParseConnectionString made of that string
    pool_mutex_,        \* OracleConnectionPool::mutex_: the thread that holds
                        \* it (0: none)
    ctx_mutex_,         \* OracleConnection::ctx_mutex_: the thread that holds it
    global_ctx_,        \* OracleConnection::global_ctx_ (0: nullptr)
    idle_conns,         \* OracleConnectionPool::pool_, each connection by
                        \* its ctx_
    opener,             \* per thread: where it is in Acquire / Open, the
                        \* connection it holds, how its last call ended
    contexts_created,   \* successful dpiContext_createWithParams calls
                        \* (observation)
    failed_before,      \* a dpiContext_createWithParams call has failed
                        \* (observation)
    conn_mutex_,        \* OracleConnection::mutex_ of one connection: the
                        \* thread that holds it (0: none)
    caller,             \* per thread: the operation it runs on the
                        \* connection and where it is in it
    query_call,         \* the last ExecuteQuery call: the rows of its result,
                        \* what the driver and the callback did, what the call
                        \* did (observation)
    number_info,        \* dpiQueryInfo::typeInfo of a NUMBER result column
    number_value,       \* the integer Oracle holds in a cell of the column,
                        \* in decimal
    narrowed,           \* the duckdb::Value ExecuteQuery stored for the cell
    lock_owner,         \* per mutex of the connector: the thread that holds it
                        \* (0: none)
    lock_script,        \* per thread: the steps its operation has still to take
    lock_op,            \* per thread: the operation it is in (observation)
    stmt_call           \* the last statement operation of a connection: what it
                        \* prepared and released (observation)

poolVars == <<max_connections_, pool_, poolOp>>
scanVars == <<gstate, local, tableRows, delivered>>
connVars == <<max_connections_, pool_, pc, conn, gstate, local, tableRows,
              delivered, last, poolOp>>
pushdownVars == <<bind_filters, filters, required, input, before>>
renderVars == <<tree, rendered>>
\* The variables of the parts that follow the scan and the filter pushdown.
selectVars == <<column_ids, limit, offset, oracle_major_version, projection,
                query>>
typeVars == <<column, duck_type, ddl, cell, native_type, target_type, zone,
              converted>>
catalogVars == <<schema_cache_, table_cache_, next_entry, lookup_name,
                 schema_ptr, apart, returned, lastOp>>
tableVars == <<table_map, load, column_reads, next_table, lastLoad>>
clearFnVars == <<cached_schemas, fn_call>>
quoteVars == <<emitted>>
connStrVars == <<params, connect_string, parsed>>
openVars == <<pool_mutex_, ctx_mutex_, global_ctx_, idle_conns, opener,
              contexts_created, failed_before>>
mutexVars == <<conn_mutex_, caller>>
queryVars == <<query_call>>
narrowVars == <<number_info, number_value, narrowed>>
lockVars == <<lock_owner, lock_script, lock_op>>
stmtVars == <<stmt_call>>
\* The variables of the parts that follow the catalog.
laterVars == <<tableVars, clearFnVars, quoteVars, connStrVars, openVars,
               mutexVars, queryVars, narrowVars, lockVars, stmtVars>>
earlierVars == <<connVars, pushdownVars, renderVars, selectVars, typeVars,
                 catalogVars>>
otherThanTables == <<earlierVars, clearFnVars, quoteVars, connStrVars,
                     openVars, mutexVars, queryVars, narrowVars, lockVars,
                     stmtVars>>
\* The variables that a table lookup, which borrows a pooled connection,
\* leaves alone.
otherThanTablesPool == <<max_connections_, pc, conn, scanVars, last,
                         pushdownVars, renderVars, selectVars, typeVars,
                         catalogVars, clearFnVars, quoteVars, connStrVars,
                         openVars, mutexVars, queryVars, narrowVars,
                         lockVars, stmtVars>>
otherThanClearFn == <<earlierVars, tableVars, quoteVars, connStrVars,
                      openVars, mutexVars, queryVars, narrowVars, lockVars,
                      stmtVars>>
otherThanQuote == <<earlierVars, tableVars, clearFnVars, connStrVars,
                    openVars, mutexVars, queryVars, narrowVars, lockVars,
                    stmtVars>>
otherThanConnStr == <<earlierVars, tableVars, clearFnVars, quoteVars,
                      openVars, mutexVars, queryVars, narrowVars, lockVars,
                      stmtVars>>
otherThanOpen == <<earlierVars, tableVars, clearFnVars, quoteVars,
                   connStrVars, mutexVars, queryVars, narrowVars, lockVars,
                   stmtVars>>
otherThanMutex == <<earlierVars, tableVars, clearFnVars, quoteVars,
                    connStrVars, openVars, queryVars, narrowVars, lockVars,
                    stmtVars>>
otherThanQuery == <<earlierVars, tableVars, clearFnVars, quoteVars,
                    connStrVars, openVars, mutexVars, narrowVars, lockVars,
                    stmtVars>>
otherThanNarrow == <<earlierVars, tableVars, clearFnVars, quoteVars,
                     connStrVars, openVars, mutexVars, queryVars, lockVars,
                     stmtVars>>
otherThanLocks == <<earlierVars, tableVars, clearFnVars, quoteVars,
                    connStrVars, openVars, mutexVars, queryVars, narrowVars,
                    stmtVars>>
otherThanStmt == <<earlierVars, tableVars, clearFnVars, quoteVars,
                   connStrVars, openVars, mutexVars, queryVars, narrowVars,
                   lockVars>>
restVars == <<renderVars, selectVars, typeVars, catalogVars, laterVars>>
otherThanRender == <<connVars, pushdownVars, selectVars, typeVars, catalogVars,
                     laterVars>>
otherThanSelect == <<connVars, renderVars, typeVars, catalogVars, laterVars>>
otherThanType == <<connVars, pushdownVars, renderVars, selectVars, catalogVars,
                   laterVars>>
otherThanCatalog == <<max_connections_, scanVars, last, pushdownVars,
                      renderVars, selectVars, typeVars, laterVars>>
vars == <<max_connections_, pool_, pc, conn, gstate, local, tableRows,
          delivered, last, poolOp, bind_filters, filters, required, input,
          before, tree, rendered, column_ids, limit, offset,
          oracle_major_version, projection, query, column, duck_type, ddl,
          cell, native_type, target_type, zone, converted, schema_cache_,
          table_cache_, next_entry, lookup_name, schema_ptr, apart, returned,
          lastOp, laterVars>>

\* A part of the connector that a specification leaves out stays as it is
\* before its first call.
PushdownIdle ==
    /\ bind_filters = <<>>
    /\ filters = <<>>
    /\ required = <<>>
    /\ input = <<>>
    /\ before = <<>>
RenderIdle == tree = "none" /\ rendered = "none"
\* DConstants::INVALID_INDEX, idx_t(-1): the limit is not set.
INVALID_INDEX == -1
\* COLUMN_IDENTIFIER_ROW_ID, column_t(-1): the row-id sentinel.
COLUMN_IDENTIFIER_ROW_ID == -1
\* A statement: its text and, for Oracle's reading of it, the row-limiting
\* form it has and the numbers in it.
Statement(text, form, offset_rows, fetch_rows, rownum_max, rn_min) ==
    [text |-> text, form |-> form, offset_rows |-> offset_rows,
     fetch_rows |-> fetch_rows, rownum_max |-> rownum_max, rn_min |-> rn_min]

NoStatement == Statement("", "none", 0, 0, 0, 0)
SelectIdle ==
    /\ column_ids = <<>>
    /\ limit = INVALID_INDEX
    /\ offset = 0
    /\ oracle_major_version = 12
    /\ projection = <<>>
    /\ query = NoStatement
\* LogicalType: its id and, for DECIMAL, width and scale.
LogicalType(id) == [id |-> id, width |-> 0, scale |-> 0]
DECIMAL(width, scale) == [id |-> "DECIMAL", width |-> width, scale |-> scale]
NoType == LogicalType("INVALID")
\* OracleColumnInfo with its member defaults.
NoColumn == [oracle_type_name |-> "", precision |-> 0, scale |-> -127]
\* dpiTimestamp.
Timestamp(year, month, day, hour, minute, second, fsecond, tzHourOffset, tzMinuteOffset) ==
    [year |-> year, month |-> month, day |-> day, hour |-> hour,
     minute |-> minute, second |-> second, fsecond |-> fsecond,
     tzHourOffset |-> tzHourOffset, tzMinuteOffset |-> tzMinuteOffset]
\* dpiData: isNull and the value union, held here as one number (asDouble,
\* asFloat, asInt64, asUint64, asBoolean), one byte string (asBytes, the
\* content of asLOB), one dpiTimestamp and one interval (the fields of
\* dpiIntervalYM and dpiIntervalDS).
DpiData(isNull, num, bytes, ts, iv) ==
    [isNull |-> isNull, num |-> num, bytes |-> bytes, asTimestamp |-> ts,
     asInterval |-> iv]
NoInterval ==
    [years |-> 0, months |-> 0, days |-> 0, hours |-> 0, minutes |-> 0,
     seconds |-> 0, fseconds |-> 0]
NoData ==
    DpiData(TRUE, 0, "", Timestamp(1970, 1, 1, 0, 0, 0, 0, 0, 0), NoInterval)
\* duckdb::Value: its type, whether it is NULL, its payload (a number, a
\* string, an instant or an interval), and the fields of the cell's value
\* union the conversion read.
DuckValue(type, is_null, payload, reads) ==
    [type |-> type, is_null |-> is_null, payload |-> payload, reads |-> reads]
NotConverted == DuckValue(NoType, TRUE, 0, {})
TypeIdle ==
    /\ column = NoColumn
    /\ duck_type = NoType
    /\ ddl = [type |-> "", text |-> ""]
    /\ cell = NoData
    /\ native_type = "none"
    /\ target_type = NoType
    /\ zone = 0
    /\ converted = NotConverted
\* Largest number of schema entries constructed.
MaxEntries == 3
NoEntry == 0
Entries == 1..MaxEntries
\* Schema names as callers spell them, and OracleUtils::ToUpper of them.
Names == {"hr", "HR", "sales"}
ToUpper(name) ==
    CASE name = "hr" -> "HR"
      [] name = "sales" -> "SALES"
      [] name = "emp" -> "EMP"
      [] name = "gone" -> "GONE"
      [] OTHER -> name
UpperNames == {ToUpper(n) : n \in Names}
\* params_.GetEffectiveSchema().
GetEffectiveSchema == ToUpper("hr")
\* No catalog operation has acted.
NoOp ==
    [op |-> "none", thread |-> 0, quiet |-> FALSE, before |-> {},
     hadIdle |-> FALSE, hadLoaded |-> FALSE, hadOthers |-> FALSE]
\* The catalog after Initialize: the default schema preloaded.
CatalogIdle ==
    /\ schema_cache_ = [u \in UpperNames |->
                           IF u = GetEffectiveSchema THEN 1 ELSE NoEntry]
    /\ table_cache_ = [e \in Entries |-> {}]
    /\ next_entry = 2
    /\ lookup_name = [t \in Threads |-> ""]
    /\ schema_ptr = [t \in Threads |-> NoEntry]
    /\ apart = [t \in Threads |-> TRUE]
    /\ returned = [u \in UpperNames |-> {}]
    /\ lastOp = NoOp

\* ---------------------------------------------------- table entries, idle

\* Largest number of columns of a table in Oracle's dictionary.
MaxColumns == 2
\* Largest number of list_columns reads followed for one table name.
MaxReads == 2
\* No table entry under a name; no value returned yet.
NoTable == [id |-> 0, columns |-> <<>>]
NoResult == [kind |-> "none", id |-> 0]
\* name arguments of GetOrLoadTable, and the keys of table_cache_.
TableNames == {"emp", "EMP", "gone"}
UpperTables == {ToUpper(n) : n \in TableNames}
NoLoad ==
    [pc |-> "idle", name |-> "", columns |-> <<>>, driver |-> "none",
     result |-> NoResult]
NoMetadataOp ==
    [op |-> "none", thread |-> 0, name |-> "", outcome |-> "none",
     driver |-> "none", listed |-> <<>>, replaced |-> FALSE, conn |-> 0]
\* The schema entry as its constructor leaves it.
TablesIdle ==
    /\ table_map = [u \in UpperTables |-> NoTable]
    /\ load = [t \in Threads |-> NoLoad]
    /\ column_reads = [u \in UpperTables |-> 0]
    /\ next_table = 1
    /\ lastLoad = NoMetadataOp


\* ------------------------------------------------ oracle_clear_cache, idle

\* Largest number of rows in the argument chunk of a scalar function call.
MaxArgs == 2
\* The catalog after Initialize; no oracle_clear_cache call made.
ClearFnIdle ==
    /\ cached_schemas = {GetEffectiveSchema}
    /\ fn_call = <<>>


\* ------------------------------------------------- statement text, idle

\* Longest string value put into a statement.
MaxStringLen == 2
\* No statement built yet.
NoText == [op |-> "none", text |-> <<>>, literals |-> <<>>]
QuoteIdle == emitted = NoText


\* --------------------------------------------- connection strings, idle

\* OracleConnectionParameters with its member defaults (strings as their
\* characters; a word that is never split is written as one element).
DefaultParams ==
    [host |-> <<"localhost">>, port |-> 1521, service_name |-> <<>>,
     sid |-> <<>>, tns_name |-> <<>>, user |-> <<>>, password |-> <<>>,
     wallet_location |-> <<>>, schema |-> <<>>, fetch_size |-> 10000,
     threw |-> FALSE]
ConnStrIdle ==
    /\ params = DefaultParams
    /\ connect_string = <<>>
    /\ parsed = DefaultParams

\* -------------------------------------------------- driver context, idle

\* A thread outside Acquire and Open, holding no connection.
NoOpener ==
    [pc |-> "idle", via |-> "none", ctx |-> 0, held |-> 0, result |-> "none"]
OpenIdle ==
    /\ pool_mutex_ = 0
    /\ ctx_mutex_ = 0
    /\ global_ctx_ = 0
    /\ idle_conns = <<>>
    /\ opener = [t \in Threads |-> NoOpener]
    /\ contexts_created = 0
    /\ failed_before = FALSE

\* ----------------------------------------------- connection mutex, idle

\* A thread outside every operation of the connection.
NoCaller == [op |-> "none", pc |-> "idle", left |-> 0, result |-> "none"]
MutexIdle ==
    /\ conn_mutex_ = 0
    /\ caller = [t \in Threads |-> NoCaller]

\* ------------------------------------------------- ExecuteQuery, idle

\* Largest number of rows in the result of a query.
MaxQueryRows == 5
\* No ExecuteQuery call made.
NoQueryCall ==
    [op |-> "none", nrows |-> 0,
     drv |-> [prepareOk |-> FALSE, executeOk |-> FALSE, fetchErrAt |-> 0],
     cb |-> [ret |-> FALSE, moves |-> FALSE],
     result |-> [raised |-> FALSE, fetchFailed |-> FALSE, calls |-> <<>>,
                 released |-> -1]]
QueryIdle == query_call = NoQueryCall

\* ----------------------------------------------------- 64-bit cells, idle

\* The largest precision ExecuteQuery reads as a 64-bit integer.
MaxInt64Precision == 18
\* No cell converted.
NotNarrowed == [native |-> "none", type |-> "INVALID", words |-> <<>>]
NarrowIdle ==
    /\ number_info = [oracleTypeNum |-> "none", precision |-> 0, scale |-> 0]
    /\ number_value = [neg |-> FALSE, digits |-> <<0>>]
    /\ narrowed = NotNarrowed

\* -------------------------------------------------------- the locks, idle

\* OracleCatalog::cache_mutex_, OracleSchemaEntry::cache_mutex_,
\* OracleConnectionPool::mutex_, OracleConnection::ctx_mutex_ and
\* OracleConnection::mutex_.
Mutexes == {"catalog", "table", "pool", "ctx", "conn"}
LocksIdle ==
    /\ lock_owner = [m \in Mutexes |-> 0]
    /\ lock_script = [t \in Threads |-> <<>>]
    /\ lock_op = [t \in Threads |-> "none"]

\* --------------------------------------------------- the statements, idle

\* No statement operation made.
NoStmtCall ==
    [op |-> "none", given |-> <<>>, prepared |-> 0, releases |-> 0,
     raised |-> FALSE, stopped |-> FALSE, rows |-> 0]
StmtIdle == stmt_call = NoStmtCall

LaterIdle ==
    /\ TablesIdle
    /\ ClearFnIdle
    /\ QuoteIdle
    /\ ConnStrIdle
    /\ OpenIdle
    /\ MutexIdle
    /\ QueryIdle
    /\ NarrowIdle
    /\ LocksIdle
    /\ StmtIdle
RestIdle == RenderIdle /\ SelectIdle /\ TypeIdle /\ CatalogIdle /\ LaterIdle

\* ------------------------------------------------------------ data chunks

EmptyChunk == [card |-> 0, data |-> <<>>]

Range(s) == {s[i] : i \in DOMAIN s}

\* --------------------------------------------------- OracleConnectionPool

\* Connections that exist: idle in the pool or referenced by a thread.
LiveConns ==
    Range(pool_)
        \cup {conn[t] : t \in {u \in Threads : pc[u] = "meta"}}
        \cup {local[t].connection :
                 t \in {u \in Threads : pc[u] \in {"scan", "failed"}}}

\* OracleConnection::Open gives a connection object that did not exist.
FreshConn(live) == CHOOSE c \in ConnIds \ live : \A d \in ConnIds \ live : c <= d

AcquireKeepsIdle(pool, live, openOk) ==
    IF pool # <<>>
    THEN [conn |-> pool[Len(pool)], pool |-> pool,
          opened |-> FALSE, threw |-> FALSE]
    ELSE IF openOk
         THEN [conn |-> FreshConn(live), pool |-> pool,
               opened |-> TRUE, threw |-> FALSE]
         ELSE [conn |-> NoConn, pool |-> pool, opened |-> FALSE, threw |-> TRUE]

\* A mutant of Acquire: the idle list is not looked at, a connection is
\* opened on every call.
AcquireOpensAlways(pool, live, openOk) ==
    IF openOk
    THEN [conn |-> FreshConn(live), pool |-> pool,
          opened |-> TRUE, threw |-> FALSE]
    ELSE [conn |-> NoConn, pool |-> pool, opened |-> FALSE, threw |-> TRUE]

\* OracleConnectionPool::Acquire, under the pool mutex: the last idle
\* connection, or a newly opened one; Open may throw.
Acquire(pool, live, openOk) ==
    IF pool # <<>>
    THEN [conn |-> pool[Len(pool)], pool |-> SubSeq(pool, 1, Len(pool) - 1),
          opened |-> FALSE, threw |-> FALSE]
    ELSE IF openOk
         THEN [conn |-> FreshConn(live), pool |-> pool,
               opened |-> TRUE, threw |-> FALSE]
         ELSE [conn |-> NoConn, pool |-> pool, opened |-> FALSE, threw |-> TRUE]

ReleaseAtCap(pool, cap, c) ==
    IF Len(pool) <= cap THEN Append(pool, c) ELSE pool

\* OracleConnectionPool::Release, under the pool mutex.
Release(pool, cap, c) ==
    IF Len(pool) < cap THEN Append(pool, c) ELSE pool

AcquireOutcome(a) ==
    IF a.threw THEN "acquire threw"
    ELSE IF a.opened THEN "acquire opened" ELSE "acquire idle"

ReleaseOutcome(pool, released) ==
    IF Len(released) > Len(pool) THEN "release stored" ELSE "release dropped"

\* ------------------------------------------- OracleConnection::ExecuteQuery

\* What the driver does in one ExecuteQuery call: prepare or execute may
\* fail, and fetch number fetchErrAt may fail (0: no fetch fails).
DriverOutcomes(nrows) ==
    {[prepareOk |-> FALSE, executeOk |-> TRUE, fetchErrAt |-> 0],
     [prepareOk |-> TRUE, executeOk |-> FALSE, fetchErrAt |-> 0]}
        \cup {[prepareOk |-> TRUE, executeOk |-> TRUE, fetchErrAt |-> k] :
                k \in 0..(nrows + 1)}

\* How the host library was built: DataChunk::SetCardinality checks
\* count <= capacity with D_ASSERT, which only a debug build compiles in.
Builds == {"release", "debug"}

\* The callback OracleScan::Scan passes: output.Move(chunk), which leaves
\* `chunk` destroyed (no vectors, capacity 0), and `return false`.
ScanCallback == [ret |-> FALSE, moves |-> TRUE]

\* The `while (true)` loop of ExecuteQuery. k rows have been fetched, the
\* chunk holds row_count rows (data), calls are the callback invocations so
\* far. The result is the state at the loop's exit.
RECURSIVE FetchLoop(_, _, _, _, _, _, _)
FetchLoop(nrows, fetchErrAt, cb, k, row_count, data, calls) ==
    IF fetchErrAt = k + 1
    THEN \* dpiStmt_fetch(...) != DPI_SUCCESS: break
         [row_count |-> row_count, data |-> data, calls |-> calls,
          fetchFailed |-> TRUE, destroyed |-> FALSE]
    ELSE IF k + 1 > nrows
    THEN \* !found: break
         [row_count |-> row_count, data |-> data, calls |-> calls,
          fetchFailed |-> FALSE, destroyed |-> FALSE]
    ELSE LET data1 == Append(data, k + 1)
             rc1 == row_count + 1
         IN IF rc1 = STANDARD_VECTOR_SIZE
            THEN LET call == [card |-> rc1, data |-> data1, ret |-> cb.ret]
                 IN IF ~cb.ret
                    THEN \* break, before chunk.Reset() and row_count = 0
                         [row_count |-> rc1,
                          data |-> IF cb.moves THEN <<>> ELSE data1,
                          calls |-> Append(calls, call),
                          fetchFailed |-> FALSE, destroyed |-> cb.moves]
                    ELSE FetchLoop(nrows, fetchErrAt, cb, k + 1, 0, <<>>,
                                   Append(calls, call))
            ELSE FetchLoop(nrows, fetchErrAt, cb, k + 1, rc1, data1, calls)

\* A mutant of ExecuteQuery: the rows left in the chunk when the loop ends
\* are not flushed.
ExecuteQueryNoFlush(nrows, drv, cb, build) ==
    LET l == FetchLoop(nrows, drv.fetchErrAt, cb, 0, 0, <<>>, <<>>)
    IN [raised |-> ~drv.prepareOk \/ ~drv.executeOk, context |-> "",
        prepares |-> 1, fetchFailed |-> l.fetchFailed, afterError |-> 0,
        calls |-> IF drv.prepareOk /\ drv.executeOk THEN l.calls ELSE <<>>,
        released |-> IF drv.prepareOk /\ drv.executeOk THEN Len(l.calls)
                     ELSE -1]

\* OracleConnection::ExecuteQuery on a result of nrows rows. `released` is
\* the number of callback invocations made when dpiStmt_release runs, -1
\* when the call ends without it.
ExecuteQuery(nrows, drv, cb, build) ==
    IF ~drv.prepareOk
    THEN [raised |-> TRUE, context |-> "ExecuteQuery::prepareStmt",
          prepares |-> 1, fetchFailed |-> FALSE, afterError |-> 0,
          calls |-> <<>>, released |-> -1]
    ELSE IF ~drv.executeOk
    THEN [raised |-> TRUE, context |-> "ExecuteQuery::execute",
          prepares |-> 1, fetchFailed |-> FALSE, afterError |-> 0,
          calls |-> <<>>, released |-> -1]
    ELSE LET l == FetchLoop(nrows, drv.fetchErrAt, cb, 0, 0, <<>>, <<>>)
         IN IF l.row_count > 0
            THEN \* flush: chunk.SetCardinality(row_count); callback(chunk)
                 IF l.destroyed /\ build = "debug"
                 THEN [raised |-> TRUE, context |-> "D_ASSERT",
                       prepares |-> 1, fetchFailed |-> l.fetchFailed,
                       afterError |-> 0, calls |-> l.calls, released |-> -1]
                 ELSE [raised |-> FALSE, context |-> "",
                       prepares |-> 1, fetchFailed |-> l.fetchFailed,
                       afterError |-> IF l.fetchFailed THEN 1 ELSE 0,
                       calls |-> Append(l.calls,
                                    [card |-> l.row_count, data |-> l.data,
                                     ret |-> cb.ret]),
                       released |-> Len(l.calls) + 1]
            ELSE [raised |-> FALSE, context |-> "",
                  prepares |-> 1, fetchFailed |-> l.fetchFailed,
                  afterError |-> 0, calls |-> l.calls,
                  released |-> Len(l.calls)]

\* ------------------------------------------------------------ observation

\* A scan() call: how many pool Acquires and driver prepares it made, whether
\* it raised, the callback invocations of its ExecuteQuery, the output chunk.
NoCall ==
    [op |-> "none", acquires |-> 0, prepares |-> 0, raised |-> FALSE,
     fetchFailed |-> FALSE, afterError |-> 0, calls |-> <<>>,
     out |-> EmptyChunk, wasDone |-> FALSE]

ScanCall == [NoCall EXCEPT !.op = "Scan"]

\* ------------------------------------------------------------------ Init

\* The pool and the scan before their first call.
ConnIdle ==
    /\ max_connections_ = MaxCap
    /\ pool_ = <<>>
    /\ pc = [t \in Threads |-> "idle"]
    /\ conn = [t \in Threads |-> NoConn]
    /\ gstate = [t \in Threads |-> [next_task |-> 0, max_threads |-> 0]]
    /\ local = [t \in Threads |-> [connection |-> NoConn, done |-> FALSE]]
    /\ tableRows = 0
    /\ delivered = <<>>
    /\ last = NoCall
    /\ poolOp = "none"
\* The parts up to the catalog before their first call.
EarlierIdle ==
    /\ ConnIdle /\ PushdownIdle /\ RenderIdle /\ SelectIdle /\ TypeIdle
    /\ CatalogIdle

Init ==
    /\ max_connections_ \in 1..MaxCap
    /\ pool_ = <<>>
    /\ pc = [t \in Threads |-> "idle"]
    /\ conn = [t \in Threads |-> NoConn]
    /\ gstate = [t \in Threads |-> [next_task |-> 0, max_threads |-> 0]]
    /\ local = [t \in Threads |-> [connection |-> NoConn, done |-> FALSE]]
    /\ tableRows \in 0..MaxRows
    /\ delivered = <<>>
    /\ last = NoCall
    /\ poolOp = "none"
    /\ PushdownIdle
    /\ RestIdle

\* ------------------------------------------------------ metadata callers

\* The Acquire of GetOrLoadTable, OracleSchemaEntry::Scan, CreateTable,
\* DropEntry, GetScanFunction and oracle_info: `auto conn = pool.Acquire()`.
MetaAcquire(t) ==
    /\ pc[t] = "idle"
    /\ \E openOk \in BOOLEAN :
          LET a == Acquire(pool_, LiveConns, openOk)
          IN /\ pool_' = a.pool
             /\ pc' = [pc EXCEPT ![t] = IF a.threw THEN "idle" ELSE "meta"]
             /\ conn' = [conn EXCEPT ![t] = a.conn]
             /\ poolOp' = AcquireOutcome(a)
    /\ UNCHANGED <<max_connections_, scanVars, last, pushdownVars, restVars>>

\* The driver call between Acquire and Release returned: pool.Release(conn).
MetaRelease(t) ==
    /\ pc[t] = "meta"
    /\ pool_' = Release(pool_, max_connections_, conn[t])
    /\ poolOp' = ReleaseOutcome(pool_, pool_')
    /\ pc' = [pc EXCEPT ![t] = "idle"]
    /\ conn' = [conn EXCEPT ![t] = NoConn]
    /\ UNCHANGED <<max_connections_, scanVars, last, pushdownVars, restVars>>

\* The driver call between Acquire and Release threw (GetColumns, GetTables,
\* ExecuteDML): the caller unwinds and its `conn` reference is dropped.
MetaThrow(t) ==
    /\ pc[t] = "meta"
    /\ pc' = [pc EXCEPT ![t] = "idle"]
    /\ conn' = [conn EXCEPT ![t] = NoConn]
    /\ UNCHANGED <<poolVars, scanVars, last, pushdownVars, restVars>>

\* A mutant of ClearCache: the idle list is left as it is.
ClearCacheKeepingIdle ==
    /\ pool_' = pool_
    /\ poolOp' = "clear"
    /\ UNCHANGED <<max_connections_, pc, conn, scanVars, last, pushdownVars, restVars>>

\* OracleConnectionPool::ClearCache, under the pool mutex.
ClearCache ==
    /\ pool_' = <<>>
    /\ poolOp' = "clear"
    /\ UNCHANGED <<max_connections_, pc, conn, scanVars, last, pushdownVars, restVars>>

\* ------------------------------------------------------------- OracleScan

\* OracleScan::InitGlobal: one task, one thread.
InitGlobal(t) ==
    /\ pc[t] = "idle"
    /\ pc' = [pc EXCEPT ![t] = "global"]
    /\ gstate' = [gstate EXCEPT ![t] = [next_task |-> 0, max_threads |-> 1]]
    /\ UNCHANGED <<poolVars, conn, local, tableRows, delivered, last,
                   pushdownVars, restVars>>

\* OracleScan::InitLocal: local->connection = bind_data.pool->Acquire().
InitLocal(t) ==
    /\ pc[t] = "global"
    /\ \E openOk \in BOOLEAN :
          LET a == Acquire(pool_, LiveConns, openOk)
          IN /\ pool_' = a.pool
             /\ pc' = [pc EXCEPT ![t] = IF a.threw THEN "idle" ELSE "scan"]
             /\ local' = [local EXCEPT
                             ![t] = [connection |-> a.conn, done |-> FALSE]]
             /\ poolOp' = AcquireOutcome(a)
    /\ delivered' = <<>>
    /\ last' = NoCall
    /\ UNCHANGED <<max_connections_, conn, gstate, tableRows, pushdownVars, restVars>>

\* What the host finds in `output` when Scan returns: each callback
\* invocation moves its chunk into output, so the last one stays.
OutputOf(calls) ==
    IF calls = <<>> THEN EmptyChunk
    ELSE [card |-> calls[Len(calls)].card, data |-> calls[Len(calls)].data]

Record(hist, out) ==
    IF out.card > 0 /\ Len(hist) < MaxHist THEN Append(hist, out) ELSE hist

\* Scan on a local state that is done: `if (local.done) return;`.
ScanDone(t) ==
    /\ last' = [ScanCall EXCEPT !.wasDone = TRUE]
    /\ UNCHANGED <<poolVars, pc, conn, scanVars>>

\* Scan on a local state that is not done: build the SELECT, then
\* local.connection->ExecuteQuery(sql, types, <fetch size>, callback).
ScanFetch(t) ==
    \E openOk \in BOOLEAN, drv \in DriverOutcomes(tableRows), build \in Builds :
       \* the fetch-size argument:
       \* bind_data.pool->Acquire()->GetParams().fetch_size
       LET a == Acquire(pool_, LiveConns, openOk)
           r == ExecuteQuery(tableRows, drv, ScanCallback, build)
           out == OutputOf(r.calls)
       IN /\ poolOp' = AcquireOutcome(a)
          /\ IF a.threw
             THEN /\ last' = [ScanCall EXCEPT !.acquires = 1, !.raised = TRUE]
                  /\ pc' = [pc EXCEPT ![t] = "failed"]
                  /\ UNCHANGED <<max_connections_, pool_, conn, scanVars>>
             ELSE \* the acquired connection is a temporary: it is destroyed
                  \* when the statement ends, and never released
                  /\ pool_' = a.pool
                  /\ local' = IF r.raised THEN local
                              ELSE [local EXCEPT ![t].done = (r.calls = <<>>)]
                  /\ delivered' = IF r.raised THEN delivered
                                  ELSE Record(delivered, out)
                  /\ last' = [ScanCall EXCEPT
                                 !.acquires = 1,
                                 !.prepares = r.prepares,
                                 !.raised = r.raised,
                                 !.fetchFailed = r.fetchFailed,
                                 !.afterError = r.afterError,
                                 !.calls = r.calls, !.out = out]
                  /\ pc' = [pc EXCEPT ![t] = IF r.raised THEN "failed" ELSE @]
                  /\ UNCHANGED <<max_connections_, conn, gstate, tableRows>>

ScanIgnoringDone(t) ==
    /\ pc[t] = "scan"
    /\ ScanFetch(t)
    /\ UNCHANGED <<pushdownVars, restVars>>

\* OracleScan::Scan.
Scan(t) ==
    /\ pc[t] = "scan"
    /\ IF local[t].done THEN ScanDone(t) ELSE ScanFetch(t)
    /\ UNCHANGED <<pushdownVars, restVars>>

\* The host destroys the scan's states (end of data, early stop or error): the
\* local state's connection reference is dropped (OracleScanLocalState has no destructor of its own).
EndScan(t) ==
    /\ pc[t] \in {"scan", "failed"}
    /\ pc' = [pc EXCEPT ![t] = "idle"]
    /\ local' = [local EXCEPT ![t] = [connection |-> NoConn, done |-> FALSE]]
    /\ gstate' = [gstate EXCEPT ![t] = [next_task |-> 0, max_threads |-> 0]]
    /\ delivered' = <<>>
    /\ last' = NoCall
    /\ UNCHANGED <<poolVars, conn, tableRows, pushdownVars, restVars>>

Next ==
    \/ \E t \in Threads : MetaAcquire(t)
    \/ \E t \in Threads : MetaRelease(t)
    \/ \E t \in Threads : MetaThrow(t)
    \/ ClearCache
    \/ InitGlobal(ScanThread)
    \/ InitLocal(ScanThread)
    \/ Scan(ScanThread)
    \/ EndScan(ScanThread)

Spec == Init /\ [][Next]_vars

\* Fairness: the host keeps calling scan() on a local state for as long as
\* the scan is active.
FairSpec == Spec /\ WF_vars(Scan(ScanThread))

\* --------------------------------------------------- OracleFilterPushdown

\* Sub-second units in a second (microseconds, scaled down).
SubSecondUnits == 2
\* Most filter expressions the host asks of one scan.
MaxFilters == 3

\* A host value (duckdb::Value): TIMESTAMP values count sub-second units.
Value(type, is_null, v) == [type |-> type, is_null |-> is_null, v |-> v]
NoValue == Value("INVALID", TRUE, 0)

\* A bound expression: its expression_class, its ExpressionType (for a
\* function, function.name), its children, binding.column_index, value.
Expr(class, type, children, column_index, value) ==
    [class |-> class, type |-> type, children |-> children,
     column_index |-> column_index, value |-> value]
ColumnRef(i) == Expr("BOUND_COLUMN_REF", "BOUND_COLUMN_REF", <<>>, i, NoValue)
Constant(val) == Expr("BOUND_CONSTANT", "VALUE_CONSTANT", <<>>, 0, val)
Comparison(type, l, r) == Expr("BOUND_COMPARISON", type, <<l, r>>, 0, NoValue)
Conjunction(type, cs) == Expr("BOUND_CONJUNCTION", type, cs, 0, NoValue)
Function(name, cs) == Expr("BOUND_FUNCTION", name, cs, 0, NoValue)
Operator(type, cs) == Expr("BOUND_OPERATOR", type, cs, 0, NoValue)

\* Rendered SQL text, kept as the tree the text spells: a literal (op says of
\* what kind, num its value), a quoted column name, or an operator applied
\* to rendered parts. EmptySql is the empty string.
Sql(kind, op, args, name, num) ==
    [kind |-> kind, op |-> op, args |-> args, name |-> name, num |-> num]
EmptySql == Sql("", "", <<>>, "", 0)
Literal(op, num) == Sql("literal", op, <<>>, "", num)

\* all_columns of the scanned table: ID NUMBER, TS TIMESTAMP.
col_names == <<"ID", "TS">>

QuoteIdentifier(name) == "\"" \o name \o "\""

\* A std::string whose characters matter is a sequence of one-character
\* strings. The VARCHAR case of ConstantToSQL: a quote, the characters of
\* the value with every single quote written twice, a quote.
RECURSIVE EscapeQuotes(_)
EscapeQuotes(s) ==
    IF s = <<>> THEN <<>>
    ELSE (IF Head(s) = "'" THEN <<"'", "'">> ELSE <<Head(s)>>)
             \o EscapeQuotes(Tail(s))
VarcharToSQL(s) == <<"'">> \o EscapeQuotes(s) \o <<"'">>

\* ConstantToSQL: NULL; a boolean as 1 or 0; an integer as its decimal text;
\* a string as a quoted literal; a timestamp as TIMESTAMP 'Y-M-D h:m:s', its
\* whole seconds only; the empty string for the types the model leaves
\* out of its inputs and for any other type.
ConstantToSQL(expr) ==
    LET val == expr.value
    IN IF val.is_null THEN Literal("NULL", 0)
       ELSE CASE val.type = "BOOLEAN" ->
                     Literal("number", IF val.v # 0 THEN 1 ELSE 0)
              [] val.type \in {"TINYINT", "SMALLINT", "INTEGER", "BIGINT"} ->
                     Literal("number", val.v)
              [] val.type = "VARCHAR" ->
                     Literal("string", VarcharToSQL(val.v))
              [] val.type = "TIMESTAMP" ->
                     Literal("TIMESTAMP", val.v \div SubSecondUnits)
              [] OTHER -> EmptySql

ColumnToSQL(expr, names) ==
    IF expr.column_index >= Len(names) THEN EmptySql
    ELSE Sql("column", "", <<>>, QuoteIdentifier(names[expr.column_index + 1]), 0)

RECURSIVE ExpressionToSQL(_, _)

ComparisonToSQL(expr, names) ==
    LET lhs == ExpressionToSQL(expr.children[1], names)
        rhs == ExpressionToSQL(expr.children[2], names)
    IN IF lhs = EmptySql \/ rhs = EmptySql THEN EmptySql
       ELSE CASE expr.type = "COMPARE_EQUAL" -> Sql("comparison", " = ", <<lhs, rhs>>, "", 0)
              [] expr.type = "COMPARE_NOTEQUAL" -> Sql("comparison", " <> ", <<lhs, rhs>>, "", 0)
              [] expr.type = "COMPARE_LESSTHAN" -> Sql("comparison", " < ", <<lhs, rhs>>, "", 0)
              [] expr.type = "COMPARE_GREATERTHAN" -> Sql("comparison", " > ", <<lhs, rhs>>, "", 0)
              [] expr.type = "COMPARE_LESSTHANOREQUALTO" -> Sql("comparison", " <= ", <<lhs, rhs>>, "", 0)
              [] expr.type = "COMPARE_GREATERTHANOREQUALTO" -> Sql("comparison", " >= ", <<lhs, rhs>>, "", 0)
              [] OTHER -> EmptySql

ConjunctionToSQLSkipping(expr, names) ==
    IF expr.type \notin {"CONJUNCTION_AND", "CONJUNCTION_OR"} THEN EmptySql
    ELSE LET op == IF expr.type = "CONJUNCTION_AND" THEN " AND " ELSE " OR "
             parts == [i \in DOMAIN expr.children |->
                          ExpressionToSQL(expr.children[i], names)]
         IN Sql("conjunction", op, SelectSeq(parts, LAMBDA part : part # EmptySql), "", 0)

ConjunctionToSQL(expr, names) ==
    IF expr.type \notin {"CONJUNCTION_AND", "CONJUNCTION_OR"} THEN EmptySql
    ELSE LET op == IF expr.type = "CONJUNCTION_AND" THEN " AND " ELSE " OR "
             parts == [i \in DOMAIN expr.children |->
                          ExpressionToSQL(expr.children[i], names)]
         IN IF \E i \in DOMAIN parts : parts[i] = EmptySql THEN EmptySql
            ELSE Sql("conjunction", op, parts, "", 0)

FunctionToSQL(expr, names) ==
    LET fn == expr.type
        n == Len(expr.children)
    IN IF fn \in {"isnull", "isnotnull"} /\ n = 1
       THEN LET child == ExpressionToSQL(expr.children[1], names)
            IN IF child = EmptySql THEN EmptySql
               ELSE Sql("function",
                        IF fn = "isnull" THEN " IS NULL" ELSE " IS NOT NULL",
                        <<child>>, "", 0)
       ELSE IF fn = "~~" /\ n = 2
       THEN LET col == ExpressionToSQL(expr.children[1], names)
                pat == ExpressionToSQL(expr.children[2], names)
            IN IF col = EmptySql \/ pat = EmptySql THEN EmptySql
               ELSE Sql("function", " LIKE ", <<col, pat>>, "", 0)
       ELSE EmptySql

ExpressionToSQL(expr, names) ==
    CASE expr.class = "BOUND_COMPARISON" -> ComparisonToSQL(expr, names)
      [] expr.class = "BOUND_CONJUNCTION" -> ConjunctionToSQL(expr, names)
      [] expr.class = "BOUND_FUNCTION" -> FunctionToSQL(expr, names)
      [] expr.class = "BOUND_CONSTANT" -> ConstantToSQL(expr)
      [] expr.class = "BOUND_COLUMN_REF" -> ColumnToSQL(expr, names)
      [] OTHER -> EmptySql

\* The loop of PushdownFilters over filters[i..]: a filter whose rendering
\* is not empty is appended to bind_data.filters, any other to `remaining`.
RECURSIVE PushdownLoop(_, _, _, _, _)
PushdownLoop(bd_filters, names, fs, i, remaining) ==
    IF i > Len(fs) THEN [bind_filters |-> bd_filters, filters |-> remaining]
    ELSE LET sql == ExpressionToSQL(fs[i], names)
         IN IF sql # EmptySql
            THEN PushdownLoop(Append(bd_filters, sql), names, fs, i + 1, remaining)
            ELSE PushdownLoop(bd_filters, names, fs, i + 1, Append(remaining, fs[i]))

PushdownFiltersKeepingPushed(bd_filters, names, fs) ==
    [PushdownLoop(bd_filters, names, fs, 1, <<>>) EXCEPT !.filters = fs]

\* OracleFilterPushdown::PushdownFilters: the new bind_data.filters and the
\* new contents of the host's `filters`.
PushdownFilters(bd_filters, names, fs) ==
    PushdownLoop(bd_filters, names, fs, 1, <<>>)

\* The filters the host may ask for, over the columns ID (0) and TS (1).
IdCol == ColumnRef(0)
TsCol == ColumnRef(1)
IntConst(n) == Constant(Value("INTEGER", FALSE, n))
TsConst(u) == Constant(Value("TIMESTAMP", FALSE, u))
NullConst == Constant(Value("INTEGER", TRUE, 0))
FilterExprs ==
    { Comparison("COMPARE_EQUAL", IdCol, IntConst(1)),
      Comparison("COMPARE_GREATERTHAN", IdCol, IntConst(1)),
      Comparison("COMPARE_EQUAL", IdCol, NullConst),
      \* TS = a whole second; TS = an instant with a sub-second part
      Comparison("COMPARE_EQUAL", TsCol, TsConst(SubSecondUnits)),
      Comparison("COMPARE_EQUAL", TsCol, TsConst(SubSecondUnits + 1)),
      Function("isnull", <<TsCol>>),
      \* not renderable: another comparison type, another expression class,
      \* an OR with a child that is not renderable
      Comparison("COMPARE_DISTINCT_FROM", IdCol, IntConst(1)),
      Conjunction("CONJUNCTION_OR",
          <<Comparison("COMPARE_EQUAL", IdCol, IntConst(2)),
            Operator("OPERATOR_NOT", <<Function("isnull", <<TsCol>>)>>)>>) }
FilterLists == UNION {[1..n -> FilterExprs] : n \in 0..MaxFilters}

\* The rows a table may hold: <<ID, TS>>.
\* ID is NULL, 1 or 2; TS is NULL, a whole second or an instant inside it.
RowUniverse ==
    { <<id, ts>> :
          id \in {Value("INTEGER", TRUE, 0), Value("INTEGER", FALSE, 1),
                  Value("INTEGER", FALSE, 2)},
          ts \in {Value("TIMESTAMP", TRUE, 0),
                  Value("TIMESTAMP", FALSE, SubSecondUnits),
                  Value("TIMESTAMP", FALSE, SubSecondUnits + 1)} }

\* Three-valued logic, with "ERROR" for a statement Oracle rejects.
Bool3(b) == IF b THEN "TRUE" ELSE "FALSE"
Not3(b) == CASE b = "TRUE" -> "FALSE" [] b = "FALSE" -> "TRUE" [] OTHER -> b
And3(S) ==
    IF "ERROR" \in S THEN "ERROR" ELSE IF "FALSE" \in S THEN "FALSE"
    ELSE IF "NULL" \in S THEN "NULL" ELSE "TRUE"
Or3(S) ==
    IF "ERROR" \in S THEN "ERROR" ELSE IF "TRUE" \in S THEN "TRUE"
    ELSE IF "NULL" \in S THEN "NULL" ELSE "FALSE"
CompareBy(rel, a, b) ==
    CASE rel \in {"COMPARE_EQUAL", " = "} -> a = b
      [] rel \in {"COMPARE_NOTEQUAL", " <> "} -> a # b
      [] rel \in {"COMPARE_LESSTHAN", " < "} -> a < b
      [] rel \in {"COMPARE_GREATERTHAN", " > "} -> a > b
      [] rel \in {"COMPARE_LESSTHANOREQUALTO", " <= "} -> a <= b
      [] rel \in {"COMPARE_GREATERTHANOREQUALTO", " >= "} -> a >= b

\* The host's evaluation of a filter it keeps, on one row.
HostValue(expr, row) ==
    IF expr.class = "BOUND_COLUMN_REF" THEN row[expr.column_index + 1]
    ELSE expr.value
RECURSIVE HostEval(_, _)
HostEval(expr, row) ==
    CASE expr.class = "BOUND_COMPARISON" ->
             LET l == HostValue(expr.children[1], row)
                 r == HostValue(expr.children[2], row)
             IN IF expr.type = "COMPARE_DISTINCT_FROM"
                THEN Bool3(l.is_null # r.is_null \/ (~l.is_null /\ l.v # r.v))
                ELSE IF l.is_null \/ r.is_null THEN "NULL"
                ELSE Bool3(CompareBy(expr.type, l.v, r.v))
      [] expr.class = "BOUND_CONJUNCTION" ->
             LET S == {HostEval(expr.children[i], row) : i \in DOMAIN expr.children}
             IN IF expr.type = "CONJUNCTION_AND" THEN And3(S) ELSE Or3(S)
      [] expr.class = "BOUND_FUNCTION" ->
             LET c == HostValue(expr.children[1], row)
             IN IF expr.type = "isnull" THEN Bool3(c.is_null) ELSE Bool3(~c.is_null)
      [] expr.class = "BOUND_OPERATOR" -> Not3(HostEval(expr.children[1], row))

\* Oracle's evaluation of one fragment of the WHERE clause on one row. A
\* timestamp literal names a whole second. (FilterExprs holds no LIKE.)
IsOperand(sql) == sql.kind \in {"column", "literal"}
OracleValue(sql, row) ==
    IF sql.kind = "column"
    THEN row[CHOOSE i \in DOMAIN col_names : QuoteIdentifier(col_names[i]) = sql.name]
    ELSE CASE sql.op = "NULL" -> Value("INTEGER", TRUE, 0)
           [] sql.op = "number" -> Value("INTEGER", FALSE, sql.num)
           [] sql.op = "TIMESTAMP" -> Value("TIMESTAMP", FALSE, sql.num * SubSecondUnits)
RECURSIVE OracleEval(_, _)
OracleEval(sql, row) ==
    CASE sql.kind = "comparison" /\ \A i \in DOMAIN sql.args : IsOperand(sql.args[i]) ->
             LET l == OracleValue(sql.args[1], row)
                 r == OracleValue(sql.args[2], row)
             IN IF l.is_null \/ r.is_null THEN "NULL"
                ELSE IF l.type # r.type THEN "ERROR"
                ELSE Bool3(CompareBy(sql.op, l.v, r.v))
      [] sql.kind = "conjunction" /\ sql.args # <<>> ->
             LET S == {OracleEval(sql.args[i], row) : i \in DOMAIN sql.args}
             IN IF sql.op = " AND " THEN And3(S) ELSE Or3(S)
      [] sql.kind = "function" /\ sql.op # " LIKE " /\ IsOperand(sql.args[1]) ->
             LET c == OracleValue(sql.args[1], row)
             IN IF sql.op = " IS NULL" THEN Bool3(c.is_null) ELSE Bool3(~c.is_null)
      \* a literal or a column alone, or "()", is not a condition
      [] OTHER -> "ERROR"

\* The pushdown specification starts from a freshly bound scan.
InitPushdown ==
    /\ max_connections_ = MaxCap
    /\ pool_ = <<>>
    /\ pc = [t \in Threads |-> "idle"]
    /\ conn = [t \in Threads |-> NoConn]
    /\ gstate = [t \in Threads |-> [next_task |-> 0, max_threads |-> 0]]
    /\ local = [t \in Threads |-> [connection |-> NoConn, done |-> FALSE]]
    /\ tableRows = 0
    /\ delivered = <<>>
    /\ last = NoCall
    /\ poolOp = "none"
    /\ PushdownIdle
    /\ RestIdle

\* OracleTableEntry::GetScanFunction: new bind data, with no filters.
BindTable ==
    /\ bind_filters' = <<>>
    /\ filters' = <<>>
    /\ required' = <<>>
    /\ input' = <<>>
    /\ before' = <<>>
    /\ UNCHANGED <<connVars, restVars>>

\* OracleScan::ComplexFilter: the host hands over its filter list, the ones
\* a previous call left it and some new ones.
ComplexFilter(new) ==
    /\ Len(required) + Len(new) <= MaxFilters
    /\ LET fs == filters \o new
           r == PushdownFilters(bind_filters, col_names, fs)
       IN /\ bind_filters' = r.bind_filters
          /\ filters' = r.filters
          /\ input' = fs
    /\ before' = bind_filters
    /\ required' = required \o new
    /\ UNCHANGED <<connVars, restVars>>

NextPushdown ==
    \/ BindTable
    \/ \E new \in FilterLists : ComplexFilter(new)

SpecPushdown == InitPushdown /\ [][NextPushdown]_vars

\* ---------------------------------------- ExpressionToSQL on expression trees

\* Deepest expression tree handed to ExpressionToSQL (a leaf has depth 0).
MaxDepth == 2

\* Leaves: columns in range and out of range, constants of the types
\* ConstantToSQL renders and of one it does not.
Leaves ==
    { ColumnRef(0), ColumnRef(1), ColumnRef(Len(col_names)),
      IntConst(1), NullConst, TsConst(SubSecondUnits + 1),
      Constant(Value("BOOLEAN", FALSE, 1)), Constant(Value("BLOB", FALSE, 0)) }
\* What an operator is applied to besides the tree built so far.
Siblings == { IntConst(1), ColumnRef(Len(col_names)) }
ComparisonTypes ==
    { "COMPARE_EQUAL", "COMPARE_NOTEQUAL", "COMPARE_LESSTHAN",
      "COMPARE_GREATERTHAN", "COMPARE_LESSTHANOREQUALTO",
      "COMPARE_GREATERTHANOREQUALTO", "COMPARE_DISTINCT_FROM" }
ConjunctionTypes == { "CONJUNCTION_AND", "CONJUNCTION_OR", "INVALID" }
FunctionNames == { "isnull", "isnotnull", "~~", "lower" }

RECURSIVE Depth(_)
Depth(expr) ==
    IF expr.children = <<>> THEN 0
    ELSE LET ds == {Depth(expr.children[i]) : i \in DOMAIN expr.children}
         IN 1 + CHOOSE d \in ds : \A e \in ds : e <= d

InitRender ==
    /\ max_connections_ = MaxCap
    /\ pool_ = <<>>
    /\ pc = [t \in Threads |-> "idle"]
    /\ conn = [t \in Threads |-> NoConn]
    /\ gstate = [t \in Threads |-> [next_task |-> 0, max_threads |-> 0]]
    /\ local = [t \in Threads |-> [connection |-> NoConn, done |-> FALSE]]
    /\ tableRows = 0
    /\ delivered = <<>>
    /\ last = NoCall
    /\ poolOp = "none"
    /\ PushdownIdle
    /\ SelectIdle
    /\ TypeIdle
    /\ CatalogIdle
    /\ LaterIdle
    /\ tree \in Leaves
    /\ rendered = ExpressionToSQL(tree, col_names)

\* The planner builds a larger expression over `e`, and it is rendered.
Render(e) ==
    /\ Depth(e) <= MaxDepth
    /\ tree' = e
    /\ rendered' = ExpressionToSQL(e, col_names)
    /\ UNCHANGED otherThanRender

RenderComparison ==
    \E type \in ComparisonTypes, other \in Siblings :
        Render(Comparison(type, tree, other)) \/ Render(Comparison(type, other, tree))
RenderConjunction ==
    \E type \in ConjunctionTypes, other \in Siblings :
        Render(Conjunction(type, <<tree, other>>))
RenderFunction ==
    \E name \in FunctionNames :
        \/ Render(Function(name, <<tree>>))
        \/ \E other \in Siblings : Render(Function(name, <<tree, other>>))
RenderOperator == Render(Operator("OPERATOR_NOT", <<tree>>))

NextRender ==
    \/ RenderComparison
    \/ RenderConjunction
    \/ RenderFunction
    \/ RenderOperator

SpecRender == InitRender /\ [][NextRender]_vars

\* ----------------------------------- OracleScanBindData::BuildSelectQuery

\* Most column ids in a projection.
MaxColumnIds == 3
\* Largest limit and offset.
MaxLimit == 2

Pad2(n) == IF n < 10 THEN "0" \o ToString(n) ELSE ToString(n)
Pad4(n) ==
    IF n < 10 THEN "000" \o ToString(n)
    ELSE IF n < 100 THEN "00" \o ToString(n)
    ELSE IF n < 1000 THEN "0" \o ToString(n) ELSE ToString(n)

\* Date::Convert: the civil date of a day number (days since 1970-01-01).
DateConvert(days) ==
    LET z == days + 719468
        era == z \div 146097
        doe == z - era * 146097
        yoe == (doe - doe \div 1460 + doe \div 36524 - doe \div 146096) \div 365
        doy == doe - (365 * yoe + yoe \div 4 - yoe \div 100)
        mp == (5 * doy + 2) \div 153
        m == IF mp < 10 THEN mp + 3 ELSE mp - 9
    IN [year |-> yoe + era * 400 + (IF m <= 2 THEN 1 ELSE 0),
        month |-> m,
        day |-> doy - (153 * mp + 2) \div 5 + 1]

\* The text "%04d-%02d-%02d %02d:%02d:%02d" of a whole second.
TimestampText(seconds) ==
    LET d == DateConvert(seconds \div 86400)
        t == seconds % 86400
    IN Pad4(d.year) \o "-" \o Pad2(d.month) \o "-" \o Pad2(d.day) \o " "
       \o Pad2(t \div 3600) \o ":" \o Pad2((t \div 60) % 60) \o ":" \o Pad2(t % 60)

RECURSIVE Join(_, _)
Join(parts, sep) ==
    IF parts = <<>> THEN ""
    ELSE IF Len(parts) = 1 THEN parts[1]
    ELSE parts[1] \o sep \o Join(Tail(parts), sep)

\* The characters of a rendered fragment, as the *ToSQL functions spell it.
\* The characters of a string, put together.
RECURSIVE Chars(_)
Chars(s) == IF s = <<>> THEN "" ELSE Head(s) \o Chars(Tail(s))

RECURSIVE SqlText(_)
SqlText(s) ==
    CASE s.kind = "literal" ->
             ( CASE s.op = "NULL" -> "NULL"
                 [] s.op = "number" -> ToString(s.num)
                 [] s.op = "string" -> Chars(s.num)
                 [] s.op = "TIMESTAMP" -> "TIMESTAMP '" \o TimestampText(s.num) \o "'" )
      [] s.kind = "column" -> s.name
      [] s.kind = "comparison" ->
             "(" \o SqlText(s.args[1]) \o s.op \o SqlText(s.args[2]) \o ")"
      [] s.kind = "conjunction" ->
             "(" \o Join([i \in DOMAIN s.args |-> SqlText(s.args[i])], s.op) \o ")"
      [] s.kind = "function" /\ s.op = " LIKE " ->
             "(" \o SqlText(s.args[1]) \o s.op \o SqlText(s.args[2]) \o ")"
      [] s.kind = "function" -> "(" \o SqlText(s.args[1]) \o s.op \o ")"
      [] OTHER -> ""

\* The bind data of the scanned table "HR"."EMPLOYEES".
BindData ==
    [schema |-> "HR", table |-> "EMPLOYEES", all_columns |-> col_names,
     filters |-> bind_filters, column_ids |-> column_ids, limit |-> limit,
     offset |-> offset, oracle_major_version |-> oracle_major_version]

RECURSIVE SelectListLoopSkippingRowId(_, _, _, _)
SelectListLoopSkippingRowId(bd, i, first, oss) ==
    IF i > Len(bd.column_ids) THEN [oss |-> oss, first |-> first]
    ELSE LET cid == bd.column_ids[i]
             sep == IF first THEN "" ELSE ", "
         IN IF cid >= 0 /\ cid < Len(bd.all_columns)
            THEN SelectListLoopSkippingRowId(bd, i + 1, FALSE,
                     oss \o sep \o QuoteIdentifier(bd.all_columns[cid + 1]))
            ELSE SelectListLoopSkippingRowId(bd, i + 1, first, oss)

\* The projection loop of BuildSelectQuery over column_ids[i..].
RECURSIVE SelectListLoop(_, _, _, _)
SelectListLoop(bd, i, first, oss) ==
    IF i > Len(bd.column_ids) THEN [oss |-> oss, first |-> first]
    ELSE LET cid == bd.column_ids[i]
             sep == IF first THEN "" ELSE ", "
         IN IF cid = COLUMN_IDENTIFIER_ROW_ID
            THEN SelectListLoop(bd, i + 1, FALSE, oss \o sep \o "ROWID")
            ELSE IF cid < Len(bd.all_columns)
            THEN SelectListLoop(bd, i + 1, FALSE,
                     oss \o sep \o QuoteIdentifier(bd.all_columns[cid + 1]))
            ELSE SelectListLoop(bd, i + 1, first, oss)

\* SELECT ... FROM ... WHERE ...: BuildSelectQuery up to the LIMIT part.
SelectFromWhere(bd) ==
    LET list == IF bd.column_ids = <<>> THEN "*"
                ELSE LET r == SelectListLoop(bd, 1, TRUE, "")
                     IN IF r.first THEN r.oss \o "*" ELSE r.oss
        from == " FROM " \o QuoteIdentifier(bd.schema) \o "."
                    \o QuoteIdentifier(bd.table)
        where == IF bd.filters = <<>> THEN ""
                 ELSE " WHERE " \o
                      Join([i \in DOMAIN bd.filters |-> SqlText(bd.filters[i])],
                           " AND ")
    IN "SELECT " \o list \o from \o where

BuildSelectQueryIgnoringOffset(bd) ==
    LET oss == SelectFromWhere(bd)
    IN IF bd.limit = INVALID_INDEX THEN Statement(oss, "plain", 0, 0, 0, 0)
       ELSE IF bd.oracle_major_version >= 12
       THEN Statement(oss \o " FETCH FIRST " \o ToString(bd.limit) \o " ROWS ONLY",
                      "fetch first", 0, bd.limit, 0, 0)
       ELSE Statement("SELECT * FROM (SELECT ROWNUM rn__, t__.* FROM (" \o oss
                          \o ") t__ WHERE ROWNUM <= " \o ToString(bd.limit)
                          \o ")" \o " WHERE rn__ > " \o ToString(bd.offset),
                      "rownum", 0, 0, bd.limit, bd.offset)

\* OracleScanBindData::BuildSelectQuery.
BuildSelectQuery(bd) ==
    LET oss == SelectFromWhere(bd)
    IN IF bd.limit = INVALID_INDEX THEN Statement(oss, "plain", 0, 0, 0, 0)
       ELSE IF bd.oracle_major_version >= 12
       THEN Statement(oss \o (IF bd.offset > 0
                              THEN " OFFSET " \o ToString(bd.offset) \o " ROWS"
                              ELSE "")
                          \o " FETCH FIRST " \o ToString(bd.limit) \o " ROWS ONLY",
                      "fetch first", bd.offset, bd.limit, 0, 0)
       ELSE Statement("SELECT * FROM (SELECT ROWNUM rn__, t__.* FROM (" \o oss
                          \o ") t__ WHERE ROWNUM <= "
                          \o ToString(bd.offset + bd.limit)
                          \o ")" \o " WHERE rn__ > " \o ToString(bd.offset),
                      "rownum", 0, 0, bd.offset + bd.limit, bd.offset)

\* The column ids a projection may hold: the columns, one id out of range,
\* the row-id sentinel.
ColumnIds == (0..Len(col_names)) \cup {COLUMN_IDENTIFIER_ROW_ID}
ColumnIdLists == UNION {[1..n -> ColumnIds] : n \in 0..MaxColumnIds}
\* Fragments ComplexFilter may have stored in the bind data.
StoredFilters ==
    LET frags == {ExpressionToSQL(f, col_names) :
                     f \in {Comparison("COMPARE_EQUAL", IdCol, IntConst(1)),
                            Comparison("COMPARE_LESSTHAN", TsCol,
                                       TsConst(86400 * 59 * SubSecondUnits + 1))}}
    IN UNION {[1..n -> frags] : n \in 0..2}

\* BuildSelectQuery on bind data with any projection, filters, limit, offset
\* and server version.
InitSelect ==
    /\ ConnIdle
    /\ bind_filters \in StoredFilters
    /\ filters = <<>>
    /\ required = <<>>
    /\ input = <<>>
    /\ before = <<>>
    /\ RenderIdle
    /\ column_ids \in ColumnIdLists
    /\ limit \in {INVALID_INDEX} \cup 0..MaxLimit
    /\ offset \in 0..MaxLimit
    /\ oracle_major_version \in {11, 12}
    /\ projection = <<>>
    /\ query = NoStatement
    /\ TypeIdle
    /\ CatalogIdle
    /\ LaterIdle

BuildQuery ==
    /\ query' = BuildSelectQuery(BindData)
    /\ UNCHANGED <<column_ids, limit, offset, oracle_major_version, projection>>
    /\ UNCHANGED <<pushdownVars, otherThanSelect>>

NextSelect == BuildQuery

SpecSelect == InitSelect /\ [][NextSelect]_vars

\* The scan of a table as the host plans and runs it: GetScanFunction left
\* fresh bind data, with the server's version.
InitProjection ==
    /\ ConnIdle
    /\ PushdownIdle
    /\ RenderIdle
    /\ column_ids = <<>>
    /\ limit = INVALID_INDEX
    /\ offset = 0
    /\ oracle_major_version \in {11, 12}
    /\ projection = <<>>
    /\ query = NoStatement
    /\ TypeIdle
    /\ CatalogIdle
    /\ LaterIdle

\* OracleScan::InitGlobal and InitLocal: the host passes the projected column
\* ids in TableFunctionInitInput; the bind data is const.
InitGlobalProjected(P) ==
    /\ projection = <<>>
    /\ P # <<>>
    /\ projection' = P
    /\ UNCHANGED <<column_ids, limit, offset, oracle_major_version, query>>
    /\ UNCHANGED <<pushdownVars, otherThanSelect>>

\* OracleScan::Scan: std::string sql = bind_data.BuildSelectQuery().
ScanBuildQuery ==
    /\ projection # <<>>
    /\ query' = BuildSelectQuery(BindData)
    /\ UNCHANGED <<column_ids, limit, offset, oracle_major_version, projection>>
    /\ UNCHANGED <<pushdownVars, otherThanSelect>>

\* The host ends the scan.
EndProjectedScan ==
    /\ projection # <<>>
    /\ projection' = <<>>
    /\ query' = NoStatement
    /\ UNCHANGED <<column_ids, limit, offset, oracle_major_version>>
    /\ UNCHANGED <<pushdownVars, otherThanSelect>>

NextProjection ==
    \/ \E P \in ColumnIdLists : InitGlobalProjected(P)
    \/ ScanBuildQuery
    \/ EndProjectedScan

SpecProjection == InitProjection /\ [][NextProjection]_vars

\* ------------------------------------------------------------ type mapping

\* Oracle's largest NUMBER precision.
MaxNumberPrecision == 38
\* Largest scale of a descriptor.
MaxScale == 2

ToDuckDBTypeIgnoringScale(c) ==
    IF c.oracle_type_name = "NUMBER"
    THEN IF c.precision <= 4 THEN LogicalType("SMALLINT")
         ELSE IF c.precision <= 9 THEN LogicalType("INTEGER")
         ELSE IF c.precision <= 18 THEN LogicalType("BIGINT")
         ELSE LogicalType("HUGEINT")
    ELSE LogicalType("VARCHAR")

\* OracleTypeMapping::ToDuckDBType.
ToDuckDBType(c) ==
    LET type == c.oracle_type_name
    IN IF type = "NUMBER"
       THEN IF c.precision = 0 /\ c.scale = -127 THEN LogicalType("DOUBLE")
            ELSE IF (c.scale = 0 \/ c.scale = -127) /\ c.precision <= 38
            THEN IF c.precision <= 4 THEN LogicalType("SMALLINT")
                 ELSE IF c.precision <= 9 THEN LogicalType("INTEGER")
                 ELSE IF c.precision <= 18 THEN LogicalType("BIGINT")
                 ELSE LogicalType("HUGEINT")
            ELSE IF c.precision > 0 /\ c.scale >= 0
            THEN DECIMAL(c.precision, c.scale)
            ELSE LogicalType("DOUBLE")
       ELSE IF type \in {"VARCHAR2", "NVARCHAR2", "CHAR", "NCHAR", "ROWID",
                         "CLOB", "NCLOB"}
       THEN LogicalType("VARCHAR")
       ELSE IF type \in {"DATE", "TIMESTAMP", "TIMESTAMP WITH LOCAL TIME ZONE"}
       THEN LogicalType("TIMESTAMP")
       ELSE IF type = "TIMESTAMP WITH TIME ZONE" THEN LogicalType("TIMESTAMP_TZ")
       ELSE IF type \in {"BLOB", "RAW"} THEN LogicalType("BLOB")
       ELSE IF type = "BINARY_FLOAT" THEN LogicalType("FLOAT")
       ELSE IF type = "BINARY_DOUBLE" THEN LogicalType("DOUBLE")
       ELSE IF type \in {"INTERVAL YEAR TO MONTH", "INTERVAL DAY TO SECOND"}
       THEN LogicalType("INTERVAL")
       ELSE LogicalType("VARCHAR")

\* The string ToOracleType returns, with the Oracle type it names.
OracleDdl(type, text) == [type |-> type, text |-> text]

\* OracleTypeMapping::ToOracleType.
ToOracleType(type) ==
    CASE type.id = "BOOLEAN" -> OracleDdl("NUMBER", "NUMBER(1)")
      [] type.id = "TINYINT" -> OracleDdl("NUMBER", "NUMBER(3)")
      [] type.id = "SMALLINT" -> OracleDdl("NUMBER", "NUMBER(5)")
      [] type.id = "INTEGER" -> OracleDdl("NUMBER", "NUMBER(10)")
      [] type.id = "BIGINT" -> OracleDdl("NUMBER", "NUMBER(19)")
      [] type.id = "HUGEINT" -> OracleDdl("NUMBER", "NUMBER(38)")
      [] type.id = "FLOAT" -> OracleDdl("BINARY_FLOAT", "BINARY_FLOAT")
      [] type.id = "DOUBLE" -> OracleDdl("BINARY_DOUBLE", "BINARY_DOUBLE")
      [] type.id = "DECIMAL" ->
             OracleDdl("NUMBER", "NUMBER(" \o ToString(type.width) \o ","
                                     \o ToString(type.scale) \o ")")
      [] type.id = "VARCHAR" -> OracleDdl("VARCHAR2", "VARCHAR2(4000)")
      [] type.id = "BLOB" -> OracleDdl("BLOB", "BLOB")
      [] type.id = "DATE" -> OracleDdl("DATE", "DATE")
      [] type.id = "TIMESTAMP" -> OracleDdl("TIMESTAMP", "TIMESTAMP")
      [] type.id = "TIMESTAMP_TZ" ->
             OracleDdl("TIMESTAMP WITH TIME ZONE", "TIMESTAMP WITH TIME ZONE")
      [] type.id = "INTERVAL" ->
             OracleDdl("INTERVAL DAY TO SECOND", "INTERVAL DAY(9) TO SECOND(9)")
      [] OTHER -> OracleDdl("VARCHAR2", "VARCHAR2(4000)")

\* The type names FromQueryInfo gives a descriptor.
QueryInfoTypeNames ==
    {"NUMBER", "VARCHAR2", "NVARCHAR2", "CHAR", "NCHAR", "DATE", "TIMESTAMP",
     "TIMESTAMP WITH TIME ZONE", "TIMESTAMP WITH LOCAL TIME ZONE", "CLOB",
     "NCLOB", "BLOB", "RAW", "BINARY_FLOAT", "BINARY_DOUBLE", "ROWID",
     "INTERVAL YEAR TO MONTH", "INTERVAL DAY TO SECOND"}
\* Further values of ALL_TAB_COLUMNS.DATA_TYPE, which GetColumns copies into
\* the descriptor: the types FLOAT and LONG RAW, and a TIMESTAMP column
\* (Oracle spells its fractional-seconds precision in DATA_TYPE).
DataTypeNames == {"FLOAT", "LONG RAW", "TIMESTAMP(6)"}
TypeNames == QueryInfoTypeNames \cup DataTypeNames

\* The descriptors: a NUMBER with any precision and scale (0 and -127 for the
\* ones Oracle does not report), the other types with the member defaults.
Columns ==
    {[oracle_type_name |-> "NUMBER", precision |-> p, scale |-> s] :
         p \in 0..MaxNumberPrecision, s \in {-127} \cup (-1..MaxScale)}
    \cup {[oracle_type_name |-> n, precision |-> 0, scale |-> -127] :
              n \in TypeNames \ {"NUMBER"}}

\* The category of an Oracle type.
OracleCategory(type) ==
    CASE type \in {"NUMBER", "FLOAT", "BINARY_FLOAT", "BINARY_DOUBLE"} ->
             "numeric"
      [] type \in {"VARCHAR2", "NVARCHAR2", "CHAR", "NCHAR", "CLOB", "NCLOB",
                   "ROWID"} -> "character"
      [] type \in {"DATE", "TIMESTAMP", "TIMESTAMP(6)",
                   "TIMESTAMP WITH TIME ZONE",
                   "TIMESTAMP WITH LOCAL TIME ZONE"} -> "date/time"
      [] type \in {"BLOB", "RAW", "LONG RAW"} -> "binary"
      [] type \in {"INTERVAL YEAR TO MONTH", "INTERVAL DAY TO SECOND"} ->
             "interval"

InitTypes ==
    /\ ConnIdle
    /\ PushdownIdle
    /\ RenderIdle
    /\ SelectIdle
    /\ column \in Columns
    /\ duck_type = NoType
    /\ ddl = OracleDdl("", "")
    /\ cell = NoData
    /\ native_type = "none"
    /\ target_type = NoType
    /\ zone = 0
    /\ converted = NotConverted
    /\ CatalogIdle
    /\ LaterIdle

\* OracleTableEntry builds a column: ToDuckDBType(col).
MapToDuckDB ==
    /\ duck_type = NoType
    /\ duck_type' = ToDuckDBType(column)
    /\ UNCHANGED <<column, ddl, cell, native_type, target_type, zone, converted>>
    /\ UNCHANGED otherThanType

\* DDL emission: ToOracleType(col.GetType()).
MapToOracle ==
    /\ duck_type # NoType
    /\ ddl' = ToOracleType(duck_type)
    /\ UNCHANGED <<column, duck_type, cell, native_type, target_type, zone,
                   converted>>
    /\ UNCHANGED otherThanType

NextTypes == MapToDuckDB \/ MapToOracle

SpecTypes == InitTypes /\ [][NextTypes]_vars

\* ------------------------------------------------------- cell conversion

\* A count of microseconds sec * 10^6 + usec (0 <= usec < 10^6), kept in two
\* parts.
Micros(sec, usec) == [sec |-> sec, usec |-> usec]

\* (int16_t) of a 64-bit integer.
Int16(n) == ((n + 32768) % 65536) - 32768

\* The day number of a civil date (days since 1970-01-01).
DaysFromCivil(year, month, day) ==
    LET y == IF month <= 2 THEN year - 1 ELSE year
        era == y \div 400
        yoe == y - era * 400
        doy == (153 * (IF month > 2 THEN month - 3 ELSE month + 9) + 2) \div 5
                   + day - 1
        doe == yoe * 365 + yoe \div 4 - yoe \div 100 + doy
    IN era * 146097 + doe - 719468

\* The seconds since the epoch of broken-down fields read as UTC.
TimeGm(t) ==
    DaysFromCivil(t.year, t.month, t.day) * 86400
        + t.hour * 3600 + t.minute * 60 + t.second

\* mktime with tm_isdst = -1: the fields are read in the process's local
\* time zone.
MkTime(t) == TimeGm(t) - zone

\* ToDuckDBValue after the null check: the switch on native_type.
ConvertCell(d, native, target) ==
    CASE native = "DOUBLE" ->
             ( CASE target.id = "FLOAT" ->
                        DuckValue(LogicalType("FLOAT"), FALSE, d.num, {"asDouble"})
                 [] target.id = "DOUBLE" ->
                        DuckValue(LogicalType("DOUBLE"), FALSE, d.num, {"asDouble"})
                 [] target.id = "DECIMAL" ->
                        DuckValue(target, FALSE, d.num * 10 ^ target.scale,
                                  {"asDouble"})
                 [] target.id = "BIGINT" ->
                        DuckValue(LogicalType("BIGINT"), FALSE, d.num, {"asDouble"})
                 [] target.id = "INTEGER" ->
                        DuckValue(LogicalType("INTEGER"), FALSE, d.num, {"asDouble"})
                 [] OTHER ->
                        DuckValue(LogicalType("DOUBLE"), FALSE, d.num, {"asDouble"}) )
      [] native = "FLOAT" ->
             DuckValue(LogicalType("FLOAT"), FALSE, d.num, {"asFloat"})
      [] native = "INT64" ->
             ( CASE target.id = "BIGINT" ->
                        DuckValue(LogicalType("BIGINT"), FALSE, d.num, {"asInt64"})
                 [] target.id = "INTEGER" ->
                        DuckValue(LogicalType("INTEGER"), FALSE, d.num, {"asInt64"})
                 [] target.id = "SMALLINT" ->
                        DuckValue(LogicalType("SMALLINT"), FALSE, Int16(d.num),
                                  {"asInt64"})
                 [] OTHER ->
                        DuckValue(LogicalType("BIGINT"), FALSE, d.num, {"asInt64"}) )
      [] native = "UINT64" ->
             DuckValue(LogicalType("UBIGINT"), FALSE, d.num, {"asUint64"})
      [] native = "BYTES" ->
             IF target = LogicalType("BLOB")
             THEN DuckValue(LogicalType("BLOB"), FALSE, d.bytes, {"asBytes"})
             ELSE DuckValue(LogicalType("VARCHAR"), FALSE, d.bytes, {"asBytes"})
      [] native = "TIMESTAMP" ->
             LET ts == d.asTimestamp
                 epoch == MkTime(ts)
                 us == Micros(epoch, ts.fsecond \div 1000)
             IN IF target = LogicalType("TIMESTAMP_TZ")
                THEN LET tz_offset_sec ==
                             (ts.tzHourOffset * 60 + ts.tzMinuteOffset) * 60
                     IN DuckValue(LogicalType("TIMESTAMP_TZ"), FALSE,
                                  Micros(us.sec - tz_offset_sec, us.usec),
                                  {"asTimestamp"})
                ELSE DuckValue(LogicalType("TIMESTAMP"), FALSE, us,
                               {"asTimestamp"})
      [] native = "INTERVAL_YM" ->
             DuckValue(LogicalType("INTERVAL"), FALSE,
                       [months |-> d.asInterval.years * 12 + d.asInterval.months,
                        days |-> 0, micros |-> Micros(0, 0)],
                       {"asIntervalYM"})
      [] native = "INTERVAL_DS" ->
             LET ids == d.asInterval
             IN DuckValue(LogicalType("INTERVAL"), FALSE,
                          [months |-> 0, days |-> ids.days,
                           micros |-> Micros(ids.hours * 3600 + ids.minutes * 60
                                                 + ids.seconds,
                                             ids.fseconds \div 1000)],
                          {"asIntervalDS"})
      [] native = "BOOLEAN" ->
             DuckValue(LogicalType("BOOLEAN"), FALSE, d.num # 0, {"asBoolean"})
      [] native = "LOB" ->
             IF target = LogicalType("BLOB")
             THEN DuckValue(LogicalType("BLOB"), FALSE, d.bytes, {"asLOB"})
             ELSE DuckValue(LogicalType("VARCHAR"), FALSE, d.bytes, {"asLOB"})
      [] OTHER -> DuckValue(target, TRUE, 0, {})

ToDuckDBValueUnchecked(d, native, target) == ConvertCell(d, native, target)

\* OracleTypeMapping::ToDuckDBValue.
ToDuckDBValue(d, native, target) ==
    IF d.isNull THEN DuckValue(target, TRUE, 0, {})
    ELSE ConvertCell(d, native, target)

\* dpiNativeTypeNum: the cases of the switch and two it does not name.
NativeTypes ==
    {"DOUBLE", "FLOAT", "INT64", "UINT64", "BYTES", "TIMESTAMP", "INTERVAL_YM",
     "INTERVAL_DS", "BOOLEAN", "LOB", "ROWID", "STMT"}
\* The host types ToDuckDBType produces, with one DECIMAL.
TargetTypes ==
    {LogicalType(id) : id \in {"SMALLINT", "INTEGER", "BIGINT", "HUGEINT",
                               "FLOAT", "DOUBLE", "VARCHAR", "BLOB",
                               "TIMESTAMP", "TIMESTAMP_TZ", "INTERVAL"}}
    \cup {DECIMAL(10, 2)}
\* 2024-01-01 00:00:00 +05:00; one second and 1500 ns after the epoch; the
\* last nanosecond of 2023 at -08:30.
Timestamps ==
    {Timestamp(2024, 1, 1, 0, 0, 0, 0, 5, 0),
     Timestamp(1970, 1, 1, 0, 0, 1, 1500, 0, 0),
     Timestamp(2023, 12, 31, 23, 59, 59, 999999999, -8, -30)}
\* Time zones the process may run in: New York (winter), UTC, Tokyo.
Zones == {-18000, 0, 32400}
Cells ==
    {DpiData(n, num, bytes, ts,
             [years |-> 1, months |-> 2, days |-> 3, hours |-> 4,
              minutes |-> 5, seconds |-> 6, fseconds |-> 7500]) :
         n \in BOOLEAN, num \in {-1, 0, 40000}, bytes \in {"", "ab"},
         ts \in Timestamps}

InitValue ==
    /\ ConnIdle
    /\ PushdownIdle
    /\ RenderIdle
    /\ SelectIdle
    /\ column = NoColumn
    /\ duck_type = NoType
    /\ ddl = OracleDdl("", "")
    /\ cell \in Cells
    /\ native_type \in NativeTypes
    /\ target_type \in TargetTypes
    /\ zone \in Zones
    /\ converted = NotConverted
    /\ CatalogIdle
    /\ LaterIdle

\* ExecuteQuery converts a fetched cell.
Convert ==
    /\ converted' = ToDuckDBValue(cell, native_type, target_type)
    /\ UNCHANGED <<column, duck_type, ddl, cell, native_type, target_type, zone>>
    /\ UNCHANGED otherThanType

NextValue == Convert

SpecValue == InitValue /\ [][NextValue]_vars

\* ------------------------------------------------------------ OracleCatalog

\* The schema entries the cache owns; any other constructed entry has been
\* destroyed.
CachedEntries == {schema_cache_[u] : u \in UpperNames} \ {NoEntry}

\* Some thread is inside OracleCatalog::ClearCache.
ClearCacheInProgress == \E u \in Threads : pc[u] \in {"cc_cleared", "cc_pooled"}

\* lastOp after a step of thread t that is not part of ClearCache.
OpOf(name, t) == [NoOp EXCEPT !.op = name, !.thread = t]

\* lastOp inside the ClearCache call of thread t: what the call found, as
\* long as no other thread has acted since it began.
Carry(t) ==
    IF lastOp.op = "cc" /\ lastOp.thread = t THEN lastOp
    ELSE [NoOp EXCEPT !.op = "cc", !.thread = t]

Record1(name, entry, record) ==
    IF record THEN [returned EXCEPT ![name] = @ \cup {entry}] ELSE returned

\* OracleCatalog::GetSchema up to `if (cached) return cached;`:
\* GetSchemaFromCache under cache_mutex_.
GetSchemaFromCache(t, schema_name) ==
    LET upper == ToUpper(schema_name)
        cached == schema_cache_[ToUpper(upper)]
    IN /\ pc[t] = "idle"
       /\ IF cached # NoEntry
          THEN /\ schema_ptr' = [schema_ptr EXCEPT ![t] = cached]
               /\ returned' = Record1(upper, cached, ~ClearCacheInProgress)
               /\ UNCHANGED <<pc, lookup_name, apart>>
          ELSE /\ pc' = [pc EXCEPT ![t] = "gs_miss"]
               /\ lookup_name' = [lookup_name EXCEPT ![t] = upper]
               /\ apart' = [apart EXCEPT ![t] = ~ClearCacheInProgress]
               /\ UNCHANGED <<schema_ptr, returned>>
       /\ lastOp' = OpOf("GetSchema", t)
       /\ UNCHANGED <<schema_cache_, table_cache_, next_entry>>
       /\ UNCHANGED <<pool_, conn, poolOp, otherThanCatalog>>

GetSchemaCreateUnchecked(t) ==
    /\ pc[t] = "gs_miss"
    /\ next_entry <= MaxEntries
    /\ schema_cache_' = [schema_cache_ EXCEPT ![lookup_name[t]] = next_entry]
    /\ next_entry' = next_entry + 1
    /\ schema_ptr' = [schema_ptr EXCEPT ![t] = next_entry]
    /\ returned' = Record1(lookup_name[t], next_entry, apart[t])
    /\ pc' = [pc EXCEPT ![t] = "idle"]
    /\ lastOp' = OpOf("GetSchema", t)
    /\ lookup_name' = [lookup_name EXCEPT ![t] = ""]
    /\ apart' = [apart EXCEPT ![t] = TRUE]
    /\ UNCHANGED table_cache_
    /\ UNCHANGED <<pool_, conn, poolOp, otherThanCatalog>>

\* OracleCatalog::GetSchema after a miss: under cache_mutex_, the double
\* check, then CreateSchemaEntry and the insertion.
GetSchemaCreate(t) ==
    LET upper == lookup_name[t]
        it == schema_cache_[upper]
    IN /\ pc[t] = "gs_miss"
       /\ IF it # NoEntry
          THEN /\ schema_ptr' = [schema_ptr EXCEPT ![t] = it]
               /\ returned' = Record1(upper, it, apart[t])
               /\ lastOp' = [OpOf("GetSchema, double check", t)
                                 EXCEPT !.quiet = apart[t]]
               /\ UNCHANGED <<schema_cache_, next_entry>>
          ELSE /\ next_entry <= MaxEntries
               /\ schema_cache_' = [schema_cache_ EXCEPT ![upper] = next_entry]
               /\ next_entry' = next_entry + 1
               /\ schema_ptr' = [schema_ptr EXCEPT ![t] = next_entry]
               /\ returned' = Record1(upper, next_entry, apart[t])
               /\ lastOp' = OpOf("GetSchema", t)
       /\ pc' = [pc EXCEPT ![t] = "idle"]
       /\ lookup_name' = [lookup_name EXCEPT ![t] = ""]
       /\ apart' = [apart EXCEPT ![t] = TRUE]
       /\ UNCHANGED table_cache_
       /\ UNCHANGED <<pool_, conn, poolOp, otherThanCatalog>>

\* OracleCatalog::ClearCache, first block: schema_cache_.clear() under
\* cache_mutex_; every entry the cache owned is destroyed.
ClearCacheSchemas(t) ==
    /\ pc[t] = "idle"
    /\ next_entry <= MaxEntries
    /\ schema_cache_' = [u \in UpperNames |-> NoEntry]
    /\ pc' = [pc EXCEPT ![t] = "cc_cleared"]
    /\ apart' = [u \in Threads |-> pc[u] # "gs_miss" /\ apart[u]]
    /\ returned' = [u \in UpperNames |-> {}]
    /\ lastOp' = [op |-> "cc", thread |-> t,
                  quiet |-> \A u \in Threads \ {t} : pc[u] = "idle",
                  before |-> 1..(next_entry - 1),
                  hadIdle |-> pool_ # <<>>,
                  hadLoaded |-> \E e \in CachedEntries : table_cache_[e] # {},
                  hadOthers |-> CachedEntries
                                    # {schema_cache_[GetEffectiveSchema]}]
    /\ UNCHANGED <<table_cache_, next_entry, lookup_name, schema_ptr>>
    /\ UNCHANGED <<pool_, conn, poolOp, otherThanCatalog>>

ClearCachePoolSkipped(t) ==
    /\ pc[t] = "cc_cleared"
    /\ pc' = [pc EXCEPT ![t] = "cc_pooled"]
    /\ lastOp' = Carry(t)
    /\ UNCHANGED <<schema_cache_, table_cache_, next_entry, lookup_name,
                   schema_ptr, apart, returned>>
    /\ UNCHANGED <<pool_, conn, poolOp, otherThanCatalog>>

\* OracleCatalog::ClearCache: pool_->ClearCache().
ClearCachePool(t) ==
    /\ pc[t] = "cc_cleared"
    /\ pool_' = <<>>
    /\ poolOp' = "clear"
    /\ pc' = [pc EXCEPT ![t] = "cc_pooled"]
    /\ lastOp' = Carry(t)
    /\ UNCHANGED <<schema_cache_, table_cache_, next_entry, lookup_name,
                   schema_ptr, apart, returned>>
    /\ UNCHANGED <<conn, otherThanCatalog>>

\* OracleCatalog::ClearCache: PreloadSchema(params_.GetEffectiveSchema()),
\* which constructs an entry and assigns it under cache_mutex_ (destroying
\* the entry a lookup may have inserted meanwhile); then the call returns.
ClearCachePreload(t) ==
    /\ pc[t] = "cc_pooled"
    /\ next_entry <= MaxEntries
    /\ schema_cache_' = [schema_cache_ EXCEPT ![GetEffectiveSchema] = next_entry]
    /\ next_entry' = next_entry + 1
    /\ pc' = [pc EXCEPT ![t] = "idle"]
    /\ lastOp' = [Carry(t) EXCEPT !.op = "ClearCache"]
    /\ UNCHANGED <<table_cache_, lookup_name, schema_ptr, apart, returned>>
    /\ UNCHANGED <<pool_, conn, poolOp, otherThanCatalog>>

\* Using a schema entry that has been destroyed is undefined: the caller
\* may crash, or go on as if the entry were there.
UseOutcomes(entry) == IF entry \in CachedEntries THEN {"ok"} ELSE {"ok", "crash"}

\* GetEntryInternal after its GetSchema: OracleSchemaEntry::GetOrLoadTable on
\* the entry GetSchema returned, up to pool_.Acquire(). The pointer is a
\* local of GetEntryInternal and is gone when the call returns.
LoadAcquire(t) ==
    /\ pc[t] = "idle"
    /\ schema_ptr[t] # NoEntry
    /\ \E use \in UseOutcomes(schema_ptr[t]), openOk \in BOOLEAN :
          LET a == Acquire(pool_, LiveConns, openOk)
          IN IF use = "crash"
             THEN /\ pc' = [pc EXCEPT ![t] = "crashed"]
                  /\ UNCHANGED <<pool_, conn, poolOp>>
             ELSE IF table_cache_[schema_ptr[t]] # {}
             THEN UNCHANGED <<pc, pool_, conn, poolOp>>
             ELSE /\ pool_' = a.pool
                  /\ pc' = [pc EXCEPT ![t] = IF a.threw THEN "idle" ELSE "meta"]
                  /\ conn' = [conn EXCEPT ![t] = a.conn]
                  /\ poolOp' = AcquireOutcome(a)
    /\ schema_ptr' = [schema_ptr EXCEPT ![t] = IF pc'[t] = "meta" THEN @
                                               ELSE NoEntry]
    /\ lastOp' = OpOf("GetOrLoadTable", t)
    /\ UNCHANGED <<schema_cache_, table_cache_, next_entry, lookup_name,
                   apart, returned>>
    /\ UNCHANGED otherThanCatalog

\* GetOrLoadTable: GetColumns returned (or threw), pool_.Release(conn), and
\* the columns.empty() test.
LoadRelease(t) ==
    /\ pc[t] = "meta"
    /\ \E columns \in {"threw", "empty", "found"} :
          /\ pool_' = IF columns = "threw" THEN pool_
                      ELSE Release(pool_, max_connections_, conn[t])
          /\ poolOp' = IF columns = "threw" THEN poolOp
                       ELSE ReleaseOutcome(pool_, pool_')
          /\ pc' = [pc EXCEPT ![t] = IF columns = "found" THEN "insert"
                                      ELSE "idle"]
    /\ conn' = [conn EXCEPT ![t] = NoConn]
    /\ schema_ptr' = [schema_ptr EXCEPT ![t] = IF pc'[t] = "insert" THEN @
                                               ELSE NoEntry]
    /\ lastOp' = OpOf("GetOrLoadTable", t)
    /\ UNCHANGED <<schema_cache_, table_cache_, next_entry, lookup_name,
                   apart, returned>>
    /\ UNCHANGED otherThanCatalog

\* GetOrLoadTable: the table entry goes into table_cache_.
LoadInsert(t) ==
    /\ pc[t] = "insert"
    /\ \E use \in UseOutcomes(schema_ptr[t]) :
          IF use = "crash"
          THEN /\ pc' = [pc EXCEPT ![t] = "crashed"]
               /\ UNCHANGED table_cache_
          ELSE /\ pc' = [pc EXCEPT ![t] = "idle"]
               /\ table_cache_' = [table_cache_ EXCEPT ![schema_ptr[t]] = {"T"}]
    /\ schema_ptr' = [schema_ptr EXCEPT ![t] = NoEntry]
    /\ lastOp' = OpOf("GetOrLoadTable", t)
    /\ UNCHANGED <<schema_cache_, next_entry, lookup_name, apart, returned>>
    /\ UNCHANGED <<pool_, conn, poolOp, otherThanCatalog>>

InitCatalog ==
    /\ ConnIdle
    /\ PushdownIdle
    /\ RenderIdle
    /\ SelectIdle
    /\ TypeIdle
    /\ CatalogIdle
    /\ LaterIdle

NextCatalog ==
    \E t \in Threads :
        \/ \E n \in Names : GetSchemaFromCache(t, n)
        \/ GetSchemaCreate(t)
        \/ ClearCacheSchemas(t)
        \/ ClearCachePool(t)
        \/ ClearCachePreload(t)
        \/ LoadAcquire(t)
        \/ LoadRelease(t)
        \/ LoadInsert(t)

SpecCatalog == InitCatalog /\ [][NextCatalog]_vars

\* ------------------------------------------------------- table entries
\* OracleSchemaEntry::GetOrLoadTable by concurrent threads on one schema
\* entry, with the dictionary reads of OracleConnection::GetColumns and
\* GetTables.

\* ALL_TAB_COLUMNS for a table, in COLUMN_ID order: EMP has MaxColumns
\* columns, any other table none. The tables and views ALL_OBJECTS lists
\* for the schema.
DictColumns(upper_name) ==
    IF upper_name = "EMP" THEN [i \in 1..MaxColumns |-> i] ELSE <<>>
DictTables == <<"EMP", "DEPT">>

\* What the driver does in one metadata read over `rows`: no failure, a
\* failure of dpiConn_prepareStmt or of dpiStmt_execute, or a failure of the
\* dpiStmt_fetch call that follows `at` fetched rows.
MetadataOutcomes(rows) ==
    {[fail |-> f, at |-> 0] : f \in {"none", "prepare", "execute"}}
        \cup {[fail |-> "fetch", at |-> k] : k \in 0..Len(rows)}

\* The fetch loop of GetTables and GetColumns: rows are appended while
\* dpiStmt_fetch succeeds and finds a row; the loop ends without a throw
\* when the fetch fails.
MetadataFetchLoop(rows, o) ==
    IF o.fail = "fetch" THEN SubSeq(rows, 1, o.at) ELSE rows

\* GetColumns / GetTables: ThrowIfError after prepare and after execute,
\* then the fetch loop and the list it built.
GetColumns(rows, o) ==
    [threw |-> o.fail \in {"prepare", "execute"},
     columns |-> IF o.fail \in {"prepare", "execute"} THEN <<>>
                 ELSE MetadataFetchLoop(rows, o)]
GetTables(rows, o) ==
    [threw |-> o.fail \in {"prepare", "execute"},
     tables |-> IF o.fail \in {"prepare", "execute"} THEN <<>>
                ELSE MetadataFetchLoop(rows, o)]

MetadataOp(op, t, name, outcome, driver) ==
    [op |-> op, thread |-> t, name |-> name, outcome |-> outcome,
     driver |-> driver, listed |-> <<>>, replaced |-> FALSE, conn |-> NoConn]

\* `auto conn = pool_.Acquire(); <driver call on conn>; pool_.Release(conn);`
\* of a metadata caller: the connection it borrowed, the idle list and the
\* last pool operation after it. Release is not reached when Open or the
\* driver call throws; the connection then goes with the caller's `conn`.
BorrowSkippingRelease(openOk, callThrew) ==
    LET a == Acquire(pool_, LiveConns, openOk)
    IN [opened |-> ~a.threw, conn |-> a.conn, pool |-> a.pool,
        op |-> AcquireOutcome(a)]
Borrow(openOk, callThrew) ==
    LET a == Acquire(pool_, LiveConns, openOk)
        released == Release(a.pool, max_connections_, a.conn)
    IN IF a.threw \/ callThrew
       THEN [opened |-> ~a.threw, conn |-> a.conn, pool |-> a.pool,
             op |-> AcquireOutcome(a)]
       ELSE [opened |-> TRUE, conn |-> a.conn, pool |-> released,
             op |-> ReleaseOutcome(a.pool, released)]

\* GetOrLoadTable: the cache lookup under cache_mutex_.
TableLookup(t, name) ==
    LET upper_name == ToUpper(name)
    IN /\ load[t].pc = "idle"
       /\ IF table_map[upper_name] # NoTable
          THEN /\ load' = [load EXCEPT ![t] =
                     [NoLoad EXCEPT !.result =
                         [kind |-> "entry", id |-> table_map[upper_name].id]]]
               /\ lastLoad' = MetadataOp("GetOrLoadTable", t, upper_name,
                                         "hit", "none")
          ELSE /\ load' = [load EXCEPT ![t] =
                     [NoLoad EXCEPT !.pc = "miss", !.name = upper_name]]
               /\ lastLoad' = MetadataOp("GetOrLoadTable", t, upper_name,
                                         "miss", "none")
       /\ UNCHANGED <<table_map, column_reads, next_table>>
       /\ UNCHANGED otherThanTables

\* GetOrLoadTable: pool_.Acquire(), conn->GetColumns, pool_.Release(conn),
\* and the columns.empty() test.
TableRead(t) ==
    /\ load[t].pc = "miss"
    /\ column_reads[load[t].name] < MaxReads
    /\ \E openOk \in BOOLEAN, o \in MetadataOutcomes(DictColumns(load[t].name)) :
          LET r == GetColumns(DictColumns(load[t].name), o)
              b == Borrow(openOk, r.threw)
              outcome == IF ~b.opened \/ r.threw THEN "error"
                         ELSE IF r.columns = <<>> THEN "null" ELSE "loaded"
              driver == IF b.opened THEN o.fail ELSE "open"
          IN /\ ~openOk => o.fail = "none"
             /\ load' = [load EXCEPT ![t] =
                   IF outcome = "loaded"
                   THEN [@ EXCEPT !.pc = "insert", !.columns = r.columns,
                                  !.driver = driver]
                   ELSE [NoLoad EXCEPT !.result =
                            [kind |-> outcome, id |-> 0]]]
             /\ lastLoad' = [MetadataOp("GetOrLoadTable", t, load[t].name,
                                        outcome, driver)
                                EXCEPT !.conn = b.conn]
             /\ pool_' = b.pool
             /\ poolOp' = b.op
    /\ column_reads' = [column_reads EXCEPT ![load[t].name] = @ + 1]
    /\ UNCHANGED <<table_map, next_table>>
    /\ UNCHANGED otherThanTablesPool

\* GetOrLoadTable: make_uniq<OracleTableEntry>, then under cache_mutex_
\* table_cache_[upper_name] = std::move(entry), which destroys an entry
\* already stored under the name.
TableInsert(t) ==
    /\ load[t].pc = "insert"
    /\ table_map' = [table_map EXCEPT ![load[t].name] =
                        [id |-> next_table, columns |-> load[t].columns]]
    /\ next_table' = next_table + 1
    /\ load' = [load EXCEPT ![t] =
           [NoLoad EXCEPT !.result = [kind |-> "entry", id |-> next_table]]]
    /\ lastLoad' = [MetadataOp("GetOrLoadTable", t, load[t].name, "inserted",
                               load[t].driver)
                       EXCEPT !.replaced = table_map[load[t].name] # NoTable]
    /\ UNCHANGED column_reads
    /\ UNCHANGED otherThanTables

\* OracleSchemaEntry::Scan up to the list it iterates over: pool_.Acquire(),
\* conn->GetTables, pool_.Release(conn).
ListTables(t) ==
    /\ load[t].pc = "idle"
    /\ \E openOk \in BOOLEAN, o \in MetadataOutcomes(DictTables) :
          LET r == GetTables(DictTables, o)
              b == Borrow(openOk, r.threw)
          IN /\ ~openOk => o.fail = "none"
             /\ lastLoad' = [MetadataOp("GetTables", t, "",
                                        IF ~b.opened \/ r.threw THEN "error"
                                        ELSE "listed",
                                        IF b.opened THEN o.fail ELSE "open")
                                EXCEPT !.listed = IF b.opened THEN r.tables
                                                  ELSE <<>>,
                                       !.conn = b.conn]
             /\ pool_' = b.pool
             /\ poolOp' = b.op
    /\ UNCHANGED <<table_map, load, column_reads, next_table>>
    /\ UNCHANGED otherThanTablesPool

InitTables == EarlierIdle /\ LaterIdle

NextTables ==
    \E t \in Threads :
        \/ \E n \in TableNames : TableLookup(t, n)
        \/ TableRead(t)
        \/ TableInsert(t)
        \/ ListTables(t)

SpecTables == InitTables /\ [][NextTables]_vars

\* ------------------------------------------------- oracle_clear_cache
\* The scalar function oracle_clear_cache(db_name), OracleClearCacheFunction.

\* The databases attached to the host: name -> Catalog::GetCatalogType().
\* Catalog::GetCatalog throws for any other name.
AttachedCatalogs == [ora |-> "oracle", memory |-> "duckdb"]
DbNames == {"ora", "memory", "nodb"}

\* The lambda of OracleClearCacheFunction on one row: the catalog lookup,
\* OracleCatalog::ClearCache() for an Oracle catalog (schema_cache_.clear(),
\* then PreloadSchema, whose allocation succeeds or throws), return 1; 0 in
\* the catch-all handler.
ClearCacheRow(db_name, preloadOk, cache) ==
    IF db_name \notin DOMAIN AttachedCatalogs
    THEN [db |-> db_name, result |-> 0, cleared |-> FALSE, cache |-> cache]
    ELSE IF AttachedCatalogs[db_name] # "oracle"
    THEN [db |-> db_name, result |-> 1, cleared |-> FALSE, cache |-> cache]
    ELSE IF preloadOk
    THEN [db |-> db_name, result |-> 1, cleared |-> TRUE,
          cache |-> {GetEffectiveSchema}]
    ELSE [db |-> db_name, result |-> 0, cleared |-> FALSE, cache |-> {}]

\* UnaryExecutor::Execute: the lambda on each row of the chunk, in order.
RECURSIVE ClearCacheRows(_, _, _)
ClearCacheRows(args, oks, cache) ==
    IF args = <<>> THEN <<>>
    ELSE LET r == ClearCacheRow(Head(args), Head(oks), cache)
         IN <<r>> \o ClearCacheRows(Tail(args), Tail(oks), r.cache)

\* A schema lookup that misses puts an entry under the name (GetSchema).
CacheSchema(n) ==
    /\ ToUpper(n) \notin cached_schemas
    /\ cached_schemas' = cached_schemas \cup {ToUpper(n)}
    /\ UNCHANGED fn_call
    /\ UNCHANGED otherThanClearFn

OracleClearCacheFunction ==
    \E k \in 1..MaxArgs :
      \E args \in [1..k -> DbNames], oks \in [1..k -> BOOLEAN] :
        LET rows == ClearCacheRows(args, oks, cached_schemas)
        IN /\ fn_call' = rows
           /\ cached_schemas' = rows[k].cache
           /\ UNCHANGED otherThanClearFn

InitClearFn == EarlierIdle /\ LaterIdle

NextClearFn == (\E n \in Names : CacheSchema(n)) \/ OracleClearCacheFunction

SpecClearFn == InitClearFn /\ [][NextClearFn]_vars

\* ------------------------------------------------------ statement text
\* Where the connector puts a string value into SQL text: the VARCHAR case
\* of ConstantToSQL and the dictionary queries of GetTables and GetColumns.

\* The characters a value is made of: a lower-case letter, an upper-case
\* letter, the single quote.
Characters == {"a", "B", "'"}
Strings == UNION {[1..n -> Characters] : n \in 0..MaxStringLen}

\* OracleUtils::ToUpper: std::toupper on every character.
ToUpperChars(s) == [i \in DOMAIN s |-> IF s[i] = "a" THEN "A" ELSE s[i]]

\* A piece of statement text: fixed text of the source (one element, or a
\* quoted word spelt out), or what the code wrote for a string value.
Fixed(chars) == [value |-> FALSE, chars |-> chars]
Written(chars) == [value |-> TRUE, chars |-> chars]

\* operator+ over the pieces: the text, and for each piece written for a
\* value the positions of its first and last character.
RECURSIVE Concatenate(_, _)
Concatenate(pieces, at) ==
    IF pieces = <<>> THEN [text |-> <<>>, literals |-> <<>>]
    ELSE LET p == Head(pieces)
             rest == Concatenate(Tail(pieces), at + Len(p.chars))
         IN [text |-> p.chars \o rest.text,
             literals |-> (IF p.value
                           THEN <<[open |-> at + 1,
                                   close |-> at + Len(p.chars)]>>
                           ELSE <<>>) \o rest.literals]

\* A filter fragment with a string constant: ComparisonToSQL around
\* ConstantToSQL.
StringFilterSql(s) ==
    <<Fixed(<<"(", QuoteIdentifier("NAME"), " = ">>),
      Written(ConstantToSQL(Constant(Value("VARCHAR", FALSE, s))).num),
      Fixed(<<")">>)>>

\* The statement text of GetTables.
GetTablesSql(schema) ==
    <<Fixed(<<"SELECT OBJECT_NAME, OBJECT_TYPE FROM ALL_OBJECTS WHERE OWNER = ">>),
      Written(<<"'">> \o ToUpperChars(schema) \o <<"'">>),
      Fixed(<<"   AND OBJECT_TYPE IN (", "'", "TABLE", "'", ", ", "'", "VIEW",
              "'", ") ORDER BY OBJECT_NAME">>)>>

\* The statement text of GetColumns.
GetColumnsSql(schema, table) ==
    <<Fixed(<<"SELECT COLUMN_NAME, DATA_TYPE, DATA_PRECISION, DATA_SCALE,        CHAR_LENGTH, NULLABLE FROM ALL_TAB_COLUMNS WHERE OWNER = ">>),
      Written(<<"'">> \o ToUpperChars(schema) \o <<"'">>),
      Fixed(<<"   AND TABLE_NAME = ">>),
      Written(<<"'">> \o ToUpperChars(table) \o <<"'">>),
      Fixed(<<" ORDER BY COLUMN_ID">>)>>

Emit(op, pieces) ==
    /\ emitted' = [op |-> op] @@ Concatenate(pieces, 0)
    /\ UNCHANGED otherThanQuote

EmitFilter == \E s \in Strings : Emit("ConstantToSQL", StringFilterSql(s))
EmitGetTables == \E s \in Strings : Emit("GetTables", GetTablesSql(s))
EmitGetColumns ==
    \E s \in Strings, t \in Strings : Emit("GetColumns", GetColumnsSql(s, t))

InitQuote == EarlierIdle /\ LaterIdle

NextQuote == EmitFilter \/ EmitGetTables \/ EmitGetColumns

SpecQuote == InitQuote /\ [][NextQuote]_vars

\* --------------------------------------------------- connection strings
\* OracleConnectionParameters::BuildConnectString, ParseConnectionString,
\* ParseEasyConnect and OracleUtils::ParseKeyValueString.

DigitChars == <<"0", "1", "2", "3", "4", "5", "6", "7", "8", "9">>
DigitOf(c) == (CHOOSE i \in DOMAIN DigitChars : DigitChars[i] = c) - 1
IsDigit(c) == \E i \in DOMAIN DigitChars : DigitChars[i] = c
IsSpace(c) == c = " "

\* operator<<(int): the decimal digits.
RECURSIVE Decimal(_)
Decimal(n) ==
    IF n < 0 THEN <<"-">> \o Decimal(-n)
    ELSE IF n < 10 THEN <<DigitChars[n + 1]>>
    ELSE Decimal(n \div 10) \o <<DigitChars[(n % 10) + 1]>>

\* std::stoi: leading white space, a sign, then digits up to the first
\* character that is none; std::invalid_argument when there is no digit.
RECURSIVE StoiDigits(_, _, _)
StoiDigits(s, i, acc) ==
    IF i <= Len(s) /\ IsDigit(s[i])
    THEN StoiDigits(s, i + 1, acc * 10 + DigitOf(s[i]))
    ELSE acc
RECURSIVE SkipSpace(_, _)
SkipSpace(s, pos) ==
    IF pos <= Len(s) /\ IsSpace(s[pos]) THEN SkipSpace(s, pos + 1) ELSE pos
Stoi(s) ==
    LET i == SkipSpace(s, 1)
        signed == i <= Len(s) /\ s[i] \in {"-", "+"}
        j == IF signed THEN i + 1 ELSE i
    IN IF j > Len(s) \/ ~IsDigit(s[j]) THEN [threw |-> TRUE, n |-> 0]
       ELSE [threw |-> FALSE,
             n |-> IF signed /\ s[i] = "-" THEN -StoiDigits(s, j, 0)
                   ELSE StoiDigits(s, j, 0)]

\* std::string::find(c, from): positions count from 1; 0 is npos.
Find(s, c, from) ==
    LET hits == {i \in from..Len(s) : s[i] = c}
    IN IF hits = {} THEN 0 ELSE CHOOSE i \in hits : \A j \in hits : i <= j

\* The first position from `pos` on that holds one of the characters
\* `stops`, or Len(s) + 1.
RECURSIVE ScanTo(_, _, _)
ScanTo(s, pos, stops) ==
    IF pos <= Len(s) /\ s[pos] \notin stops THEN ScanTo(s, pos + 1, stops)
    ELSE pos

\* OracleUtils::ParseKeyValueString, from position `pos` on: the map so
\* far is `result`, keyed by the key's text.
RECURSIVE ParseKeyValueString(_, _, _)
ParseKeyValueString(s, pos, result) ==
    LET key_start == SkipSpace(s, pos)
        key_end == ScanTo(s, key_start, {"=", " "})
        key == SubSeq(s, key_start, key_end - 1)
        eq == SkipSpace(s, key_end)
        val_at == SkipSpace(s, eq + 1)
        quoted == val_at <= Len(s) /\ s[val_at] = "'"
        val_start == IF quoted THEN val_at + 1 ELSE val_at
        val_end == IF quoted THEN ScanTo(s, val_start, {"'"})
                   ELSE ScanTo(s, val_start, {" "})
        val == SubSeq(s, val_start, val_end - 1)
        next == IF quoted /\ val_end <= Len(s) THEN val_end + 1 ELSE val_end
    IN IF key_start > Len(s) THEN result
       ELSE IF key = <<>> THEN ParseKeyValueString(s, key_end + 1, result)
       ELSE IF eq > Len(s) \/ s[eq] # "="
       THEN ParseKeyValueString(s, eq, result)
       ELSE ParseKeyValueString(s, next, (Chars(key) :> val) @@ result)

\* The `get` lambda of the two parsers.
Get(kv, key, default_val) ==
    IF key \in DOMAIN kv THEN kv[key] ELSE default_val

ParseEasyConnect(conn_str) ==
    LET space_pos == Find(conn_str, " ", 1)
        ec_part == IF space_pos # 0 THEN SubSeq(conn_str, 1, space_pos - 1)
                   ELSE conn_str
        kv_part == IF space_pos # 0
                   THEN SubSeq(conn_str, space_pos + 1, Len(conn_str))
                   ELSE <<>>
        ec == SubSeq(ec_part, 3, Len(ec_part))
        colon == Find(ec, ":", 1)
        slash == Find(ec, "/", 1)
        slash2 == Find(ec, "/", colon)
        port_text == IF slash2 # 0 THEN SubSeq(ec, colon + 1, slash2 - 1)
                     ELSE SubSeq(ec, colon + 1, Len(ec))
        kv == ParseKeyValueString(kv_part, 1, <<>>)
        p1 == IF colon # 0 /\ (slash = 0 \/ colon < slash)
              THEN [DefaultParams EXCEPT
                        !.host = SubSeq(ec, 1, colon - 1),
                        !.port = Stoi(port_text).n,
                        !.threw = Stoi(port_text).threw,
                        !.service_name =
                            IF slash2 # 0 THEN SubSeq(ec, slash2 + 1, Len(ec))
                            ELSE <<>>]
              ELSE IF slash # 0
              THEN [DefaultParams EXCEPT
                        !.host = SubSeq(ec, 1, slash - 1),
                        !.service_name = SubSeq(ec, slash + 1, Len(ec))]
              ELSE [DefaultParams EXCEPT !.host = ec]
    IN IF p1.threw THEN [DefaultParams EXCEPT !.threw = TRUE]
       ELSE IF kv_part = <<>> THEN p1
       ELSE [p1 EXCEPT !.user = Get(kv, "user", Get(kv, "username", <<>>)),
                       !.password = Get(kv, "password", <<>>),
                       !.schema = Get(kv, "schema", <<>>)]

ParseConnectionString(conn_str) ==
    IF Len(conn_str) >= 2 /\ conn_str[1] = "/" /\ conn_str[2] = "/"
    THEN ParseEasyConnect(conn_str)
    ELSE LET kv == ParseKeyValueString(conn_str, 1, <<>>)
             port == Stoi(Get(kv, "port", <<"1", "5", "2", "1">>))
             fetch == Stoi(Get(kv, "fetch_size", <<"1", "0", "0", "0", "0">>))
         IN IF port.threw \/ fetch.threw
            THEN [DefaultParams EXCEPT !.threw = TRUE]
            ELSE [host |-> Get(kv, "host", <<"localhost">>),
                  port |-> port.n,
                  service_name |->
                      Get(kv, "service", Get(kv, "service_name", <<>>)),
                  sid |-> Get(kv, "sid", <<>>),
                  tns_name |-> Get(kv, "tns", <<>>),
                  user |-> Get(kv, "user", Get(kv, "username", <<>>)),
                  password |-> Get(kv, "password", <<>>),
                  schema |-> Get(kv, "schema", <<>>),
                  wallet_location |->
                      Get(kv, "wallet", Get(kv, "wallet_location", <<>>)),
                  fetch_size |-> fetch.n,
                  threw |-> FALSE]

BuildConnectString(p) ==
    IF p.tns_name # <<>> THEN p.tns_name
    ELSE LET oss == <<"/", "/">> \o p.host \o <<":">> \o Decimal(p.port)
                        \o <<"/">>
         IN IF p.service_name # <<>> THEN oss \o p.service_name
            ELSE IF p.sid # <<>>
            THEN oss \o <<"(DESCRIPTION=(ADDRESS=(PROTOCOL=TCP)(HOST=">>
                     \o p.host \o <<")(PORT=">> \o Decimal(p.port)
                     \o <<"))", "(CONNECT_DATA=(SID=">> \o p.sid \o <<")))">>
            ELSE oss

\* The values the fields are drawn from.
NameChars == {"h", ":", "/", " "}
NameStrings == UNION {[1..n -> NameChars] : n \in 0..MaxStringLen}
Ports == {0, 7, 1521}
Sids == {<<>>, <<"x">>}
TnsNames == {<<>>, <<"O", "R", "C", "L">>, <<"host", "=", "'", "h", " ", "'">>}
ParameterValues ==
    {[DefaultParams EXCEPT !.host = h, !.port = n, !.service_name = s,
                           !.sid = i, !.tns_name = a] :
        h \in NameStrings, n \in Ports, s \in NameStrings, i \in Sids,
        a \in TnsNames}

\* p.BuildConnectString() handed to ParseConnectionString, once.
BuildAndParse ==
    \E p \in ParameterValues :
        /\ connect_string = <<>>
        /\ params' = p
        /\ connect_string' = BuildConnectString(p)
        /\ parsed' = ParseConnectionString(BuildConnectString(p))
        /\ UNCHANGED otherThanConnStr

InitConnStr == EarlierIdle /\ LaterIdle

NextConnStr == BuildAndParse

SpecConnStr == InitConnStr /\ [][NextConnStr]_vars

\* ------------------------------------------------------ driver context
\* OracleConnection::GetOrCreateContext and Open, called directly (Attach's
\* test connection) and from OracleConnectionPool::Acquire, whose
\* lock_guard lives until Acquire returns or throws. A connection is
\* written as the context its ctx_ holds.

\* A mutant of GetOrCreateContext: no test of global_ctx_, a context is
\* created on every call.
GetOrCreateContextAlways(ctx, createOk, fresh) ==
    IF createOk THEN [ctx |-> fresh, created |-> TRUE, threw |-> FALSE]
    ELSE [ctx |-> ctx, created |-> FALSE, threw |-> TRUE]

\* GetOrCreateContext with ctx_mutex_ held: the context there is, or the
\* one dpiContext_createWithParams makes (`fresh`); when the driver fails it
\* leaves its out-parameter as it was and the function throws.
GetOrCreateContext(ctx, createOk, fresh) ==
    IF ctx # 0 THEN [ctx |-> ctx, created |-> FALSE, threw |-> FALSE]
    ELSE IF createOk THEN [ctx |-> fresh, created |-> TRUE, threw |-> FALSE]
    ELSE [ctx |-> ctx, created |-> FALSE, threw |-> TRUE]

\* The lock_guard of Acquire goes when the call it belongs to ends.
LeaveAcquire(t) == IF opener[t].via = "pool" THEN 0 ELSE pool_mutex_

\* OracleConnectionPool::Acquire: lock_guard; with an idle connection, take
\* the last one and return; with none, call Open, the mutex still held.
PoolAcquire(t) ==
    /\ opener[t].pc = "idle"
    /\ opener[t].held = 0
    /\ pool_mutex_ = 0
    /\ IF idle_conns # <<>>
       THEN /\ idle_conns' = SubSeq(idle_conns, 1, Len(idle_conns) - 1)
            /\ opener' = [opener EXCEPT ![t] =
                   [NoOpener EXCEPT !.held = idle_conns[Len(idle_conns)],
                                    !.result = "idle connection"]]
            /\ UNCHANGED pool_mutex_
       ELSE /\ pool_mutex_' = t
            /\ opener' = [opener EXCEPT ![t] =
                   [NoOpener EXCEPT !.pc = "open", !.via = "pool"]]
            /\ UNCHANGED idle_conns
    /\ UNCHANGED <<ctx_mutex_, global_ctx_, contexts_created, failed_before>>
    /\ UNCHANGED otherThanOpen

\* OracleCatalog::Attach: OracleConnection::Open(params) for the test
\* connection.
DirectOpen(t) ==
    /\ opener[t].pc = "idle"
    /\ opener[t].held = 0
    /\ opener' = [opener EXCEPT ![t] =
           [NoOpener EXCEPT !.pc = "open", !.via = "direct"]]
    /\ UNCHANGED <<pool_mutex_, ctx_mutex_, global_ctx_, idle_conns,
                   contexts_created, failed_before>>
    /\ UNCHANGED otherThanOpen

\* GetOrCreateContext: std::lock_guard<std::mutex> lk(ctx_mutex_).
ContextLock(t) ==
    /\ opener[t].pc = "open"
    /\ ctx_mutex_ = 0
    /\ ctx_mutex_' = t
    /\ opener' = [opener EXCEPT ![t].pc = "context"]
    /\ UNCHANGED <<pool_mutex_, global_ctx_, idle_conns, contexts_created,
                   failed_before>>
    /\ UNCHANGED otherThanOpen

\* GetOrCreateContext: the body under the lock and the return or throw; a
\* throw leaves Open and, in a pool call, Acquire.
ContextReturn(t) ==
    /\ opener[t].pc = "context"
    /\ \E createOk \in BOOLEAN :
          LET r == GetOrCreateContext(global_ctx_, createOk,
                                      contexts_created + 1)
          IN /\ global_ctx_' = r.ctx
             /\ contexts_created' =
                    contexts_created + (IF r.created THEN 1 ELSE 0)
             /\ failed_before' = (failed_before \/ r.threw)
             /\ IF r.threw
                THEN /\ opener' = [opener EXCEPT ![t] =
                            [NoOpener EXCEPT !.result = "context error"]]
                     /\ pool_mutex_' = LeaveAcquire(t)
                ELSE /\ opener' = [opener EXCEPT ![t].pc = "connect",
                                                 ![t].ctx = r.ctx]
                     /\ UNCHANGED pool_mutex_
    /\ ctx_mutex_' = 0
    /\ UNCHANGED idle_conns
    /\ UNCHANGED otherThanOpen

\* Open: dpiConn_create, a round trip to the server, and the return or
\* throw.
Connect(t) ==
    /\ opener[t].pc = "connect"
    /\ \E connectOk \in BOOLEAN :
          opener' = [opener EXCEPT ![t] =
              IF connectOk
              THEN [NoOpener EXCEPT !.held = opener[t].ctx,
                                    !.result = "new connection"]
              ELSE [NoOpener EXCEPT !.result = "connect error"]]
    /\ pool_mutex_' = LeaveAcquire(t)
    /\ UNCHANGED <<ctx_mutex_, global_ctx_, idle_conns, contexts_created,
                   failed_before>>
    /\ UNCHANGED otherThanOpen

\* OracleConnectionPool::Release: the connection goes back while the list
\* is below max_connections_, and is dropped otherwise.
PoolRelease(t) ==
    /\ opener[t].pc = "idle"
    /\ opener[t].held # 0
    /\ pool_mutex_ = 0
    /\ idle_conns' = IF Len(idle_conns) < MaxCap
                     THEN Append(idle_conns, opener[t].held)
                     ELSE idle_conns
    /\ opener' = [opener EXCEPT ![t] = NoOpener]
    /\ UNCHANGED <<pool_mutex_, ctx_mutex_, global_ctx_, contexts_created,
                   failed_before>>
    /\ UNCHANGED otherThanOpen

\* Attach lets go of its test connection.
DropConnection(t) ==
    /\ opener[t].pc = "idle"
    /\ opener[t].held # 0
    /\ opener' = [opener EXCEPT ![t] = NoOpener]
    /\ UNCHANGED <<pool_mutex_, ctx_mutex_, global_ctx_, idle_conns,
                   contexts_created, failed_before>>
    /\ UNCHANGED otherThanOpen

\* OracleConnectionPool::ClearCache: pool_.clear() under the mutex.
PoolClearCache(t) ==
    /\ opener[t].pc = "idle"
    /\ pool_mutex_ = 0
    /\ idle_conns # <<>>
    /\ idle_conns' = <<>>
    /\ UNCHANGED <<pool_mutex_, ctx_mutex_, global_ctx_, opener,
                   contexts_created, failed_before>>
    /\ UNCHANGED otherThanOpen

InitOpen == EarlierIdle /\ LaterIdle

NextOpen ==
    \E t \in Threads :
        \/ PoolAcquire(t)
        \/ DirectOpen(t)
        \/ ContextLock(t)
        \/ ContextReturn(t)
        \/ Connect(t)
        \/ PoolRelease(t)
        \/ DropConnection(t)
        \/ PoolClearCache(t)

SpecOpen == InitOpen /\ [][NextOpen]_vars

\* ----------------------------------------------------- connection mutex
\* The statement sequences of GetTables, GetColumns, ExecuteQuery,
\* ExecuteDML and BulkInsert on one OracleConnection that several threads
\* call into.

ConnectionOps ==
    {"GetTables", "GetColumns", "ExecuteQuery", "ExecuteDML", "BulkInsert"}
\* Largest number of rows an operation fetches or binds.
MaxFetch == 2

\* A mutant of lock_guard: the operation runs without taking the mutex.
NoLockGuard(mutex, t) == [free |-> TRUE, holder |-> mutex]

\* std::lock_guard<std::mutex> lk(mutex_): waits until the mutex is free,
\* then holds it for thread t; its destructor frees it when the function
\* returns or throws.
LockGuard(mutex, t) == [free |-> mutex = 0, holder |-> t]
Unlocked(mutex, t) == IF mutex = t THEN 0 ELSE mutex

\* The end of an operation, by return or throw: the lock_guard goes.
Leave(t, result) ==
    /\ caller' = [caller EXCEPT ![t] = [NoCaller EXCEPT !.result = result]]
    /\ conn_mutex_' = Unlocked(conn_mutex_, t)

\* A thread calls an operation; BulkInsert returns at once on an empty
\* chunk, before any lock.
Call(t, op) ==
    /\ caller[t].pc = "idle"
    /\ \E n \in 0..MaxFetch :
          caller' = [caller EXCEPT ![t] =
              IF op = "BulkInsert" /\ n = 0
              THEN [NoCaller EXCEPT !.result = "returned"]
              ELSE [op |-> op, pc |-> "enter", left |-> n,
                    result |-> "none"]]
    /\ UNCHANGED conn_mutex_
    /\ UNCHANGED otherThanMutex

\* The lock_guard at the top of the operation (in BulkInsert, after the
\* statement text is built).
Lock(t) ==
    /\ caller[t].pc = "enter"
    /\ LockGuard(conn_mutex_, t).free
    /\ conn_mutex_' = LockGuard(conn_mutex_, t).holder
    /\ caller' = [caller EXCEPT ![t].pc = "locked"]
    /\ UNCHANGED otherThanMutex

\* dpiConn_prepareStmt and ThrowIfError.
Prepare(t) ==
    /\ caller[t].pc = "locked"
    /\ \E ok \in BOOLEAN :
          IF ok THEN /\ caller' = [caller EXCEPT ![t].pc = "prepared"]
                     /\ UNCHANGED conn_mutex_
          ELSE Leave(t, "threw")
    /\ UNCHANGED otherThanMutex

\* dpiStmt_execute. GetTables, GetColumns and ExecuteQuery throw on a
\* failure, the statement not released; ExecuteDML releases the statement
\* and then returns or throws; BulkInsert goes on to its rows.
Execute(t) ==
    /\ caller[t].pc = "prepared"
    /\ \E ok \in BOOLEAN :
          CASE caller[t].op = "ExecuteDML" ->
                   Leave(t, IF ok THEN "returned" ELSE "threw")
            [] caller[t].op = "BulkInsert" ->
                   /\ caller' = [caller EXCEPT ![t].pc = "executed"]
                   /\ UNCHANGED conn_mutex_
            [] OTHER ->
                   IF ok THEN /\ caller' = [caller EXCEPT ![t].pc = "executed"]
                              /\ UNCHANGED conn_mutex_
                   ELSE Leave(t, "threw")
    /\ UNCHANGED otherThanMutex

\* One round of the fetch loop (in BulkInsert, of the loop that binds and
\* executes a row).
FetchRow(t) ==
    /\ caller[t].pc = "executed"
    /\ caller[t].left > 0
    /\ caller' = [caller EXCEPT ![t].left = @ - 1]
    /\ UNCHANGED conn_mutex_
    /\ UNCHANGED otherThanMutex

\* The loop ends (no row left; before that, a fetch that failed or a
\* callback that returned false), dpiStmt_release, return.
Finish(t) ==
    /\ caller[t].pc = "executed"
    /\ \E fetchOk \in BOOLEAN :
          /\ caller[t].left > 0 => ~fetchOk
          /\ caller[t].op = "BulkInsert" => fetchOk
          /\ Leave(t, "returned")
    /\ UNCHANGED otherThanMutex

InitMutex == EarlierIdle /\ LaterIdle

NextMutex ==
    \E t \in Threads :
        \/ \E op \in ConnectionOps : Call(t, op)
        \/ Lock(t)
        \/ Prepare(t)
        \/ Execute(t)
        \/ FetchRow(t)
        \/ Finish(t)

SpecMutex == InitMutex /\ [][NextMutex]_vars

\* ------------------------------------------------ ExecuteQuery callers
\* One ExecuteQuery call at a time, with the callbacks its callers pass.

\* The callbacks: the one OracleScan::Scan passes; the one OracleQueryBind
\* passes, `return false`; one that copies the chunk and returns true.
CopyCallback == [ret |-> TRUE, moves |-> FALSE]
Callbacks == {ScanCallback, [ret |-> FALSE, moves |-> FALSE], CopyCallback}

QueryCall ==
    \E nrows \in 0..MaxQueryRows, cb \in Callbacks, build \in Builds :
      \E drv \in DriverOutcomes(nrows) :
        LET r == ExecuteQuery(nrows, drv, cb, build)
        IN /\ query_call' =
                 [op |-> "ExecuteQuery", nrows |-> nrows, drv |-> drv,
                  cb |-> cb,
                  result |-> [raised |-> r.raised,
                              fetchFailed |-> r.fetchFailed,
                              calls |-> r.calls, released |-> r.released]]
           /\ UNCHANGED otherThanQuery

InitQuery == EarlierIdle /\ LaterIdle

NextQuery == QueryCall

SpecQuery == InitQuery /\ [][NextQuery]_vars

\* ------------------------------------------------------- 64-bit cells
\* A cell of a NUMBER column that ExecuteQuery reads as int64_t, and the
\* casts of ToDuckDBValue on it. A two's-complement integer is the sequence
\* of its 16-bit words, lowest first: int64_t has four, int32_t two,
\* int16_t one. An integer in decimal is a sign and its digits, highest
\* first, without leading zeros.

Word == 2 ^ 16

\* w * m + carry on the words from i upwards, modulo 2^(16 * Len(w)).
RECURSIVE MulAdd(_, _, _, _)
MulAdd(w, i, m, carry) ==
    IF i > Len(w) THEN <<>>
    ELSE LET x == w[i] * m + carry
         IN <<x % Word>> \o MulAdd(w, i + 1, m, x \div Word)

\* -w in two's complement.
Negate(w) == MulAdd([i \in DOMAIN w |-> Word - 1 - w[i]], 1, 1, 1)

RECURSIVE Magnitude(_, _, _)
Magnitude(digits, i, acc) ==
    IF i > Len(digits) THEN acc
    ELSE Magnitude(digits, i + 1, MulAdd(acc, 1, 10, digits[i]))

\* data->value.asInt64 of a cell that holds the integer v.
ToInt64(v) ==
    LET m == Magnitude(v.digits, 1, <<0, 0, 0, 0>>)
    IN IF v.neg THEN Negate(m) ELSE m

\* w divided by ten, from the highest word down: quotient and remainder.
RECURSIVE DivTen(_, _, _)
DivTen(w, i, rem) ==
    IF i = 0 THEN [q |-> <<>>, r |-> rem]
    ELSE LET x == rem * Word + w[i]
             rest == DivTen(w, i - 1, x % 10)
         IN [q |-> Append(rest.q, x \div 10), r |-> rest.r]

RECURSIVE DigitsOf(_)
DigitsOf(w) ==
    IF \A i \in DOMAIN w : w[i] = 0 THEN <<>>
    ELSE LET d == DivTen(w, Len(w), 0)
         IN Append(DigitsOf(d.q), d.r)

\* The integer that a signed host value of Len(w) words holds.
HostInteger(w) ==
    LET neg == w[Len(w)] >= Word \div 2
        digits == DigitsOf(IF neg THEN Negate(w) ELSE w)
    IN [neg |-> neg, digits |-> IF digits = <<>> THEN <<0>> ELSE digits]

HostValue64(id, w) == [type |-> id, words |-> w]

\* A mutant of NarrowInt64: the INTEGER case casts to int16_t.
NarrowInt64Short(asInt64, target) ==
    CASE target.id = "BIGINT" -> HostValue64("BIGINT", asInt64)
      [] target.id = "INTEGER" -> HostValue64("INTEGER", SubSeq(asInt64, 1, 1))
      [] target.id = "SMALLINT" -> HostValue64("SMALLINT", SubSeq(asInt64, 1, 1))
      [] OTHER -> HostValue64("BIGINT", asInt64)

\* ToDuckDBValue, case DPI_NATIVE_TYPE_INT64: Value::BIGINT(asInt64),
\* Value::INTEGER((int32_t)asInt64), Value::SMALLINT((int16_t)asInt64).
NarrowInt64(asInt64, target) ==
    CASE target.id = "BIGINT" -> HostValue64("BIGINT", asInt64)
      [] target.id = "INTEGER" -> HostValue64("INTEGER", SubSeq(asInt64, 1, 2))
      [] target.id = "SMALLINT" -> HostValue64("SMALLINT", SubSeq(asInt64, 1, 1))
      [] OTHER -> HostValue64("BIGINT", asInt64)

\* ExecuteQuery: the native type chosen from the column's query info.
NativeTypeOf(info) ==
    CASE info.oracleTypeNum = "NUMBER" ->
             IF info.scale = 0 /\ info.precision > 0
                    /\ info.precision <= MaxInt64Precision
             THEN "INT64" ELSE "DOUBLE"
      [] info.oracleTypeNum = "NATIVE_FLOAT" -> "FLOAT"
      [] info.oracleTypeNum = "NATIVE_DOUBLE" -> "DOUBLE"
      [] info.oracleTypeNum \in {"DATE", "TIMESTAMP", "TIMESTAMP_TZ",
                                 "TIMESTAMP_LTZ"} -> "TIMESTAMP"
      [] info.oracleTypeNum \in {"CLOB", "NCLOB", "BLOB"} -> "LOB"
      [] info.oracleTypeNum = "INTERVAL_YM" -> "INTERVAL_YM"
      [] info.oracleTypeNum = "INTERVAL_DS" -> "INTERVAL_DS"
      [] OTHER -> "BYTES"

\* The integers of at most p digits that the check follows: zero, one, the
\* powers of two at which int16_t and int32_t end, the smallest and the
\* largest integer of p digits, and their negatives.
Nines(p) == [i \in 1..p |-> 9]
PowerOfTen(p) == [i \in 1..(p + 1) |-> IF i = 1 THEN 1 ELSE 0]
IntegersOf(p) ==
    {[neg |-> n, digits |-> d] :
        n \in BOOLEAN,
        d \in {e \in {<<0>>, <<1>>, <<3, 2, 7, 6, 8>>,
                      <<2, 1, 4, 7, 4, 8, 3, 6, 4, 8>>,
                      PowerOfTen(p - 1), Nines(p)} : Len(e) <= p}}
        \ {[neg |-> TRUE, digits |-> <<0>>]}

\* The table entry's column for the result column: NUMBER(precision, scale).
NumberColumn(info) ==
    [oracle_type_name |-> "NUMBER", precision |-> info.precision,
     scale |-> info.scale]

\* ExecuteQuery fetches a cell of the column: the native type from the query
\* info, the target type from the table entry's column, ToDuckDBValue.
NarrowCell ==
    /\ narrowed = NotNarrowed
    /\ NativeTypeOf(number_info) = "INT64"
    /\ narrowed' = [native |-> NativeTypeOf(number_info)]
                      @@ NarrowInt64(ToInt64(number_value),
                                     ToDuckDBType(NumberColumn(number_info)))
    /\ UNCHANGED <<number_info, number_value>>
    /\ UNCHANGED otherThanNarrow

InitNarrow ==
    /\ EarlierIdle
    /\ TablesIdle /\ ClearFnIdle /\ QuoteIdle
    /\ ConnStrIdle /\ OpenIdle /\ MutexIdle /\ QueryIdle
    /\ LocksIdle /\ StmtIdle
    /\ \E p \in 1..MaxInt64Precision :
          /\ number_info = [oracleTypeNum |-> "NUMBER", precision |-> p,
                            scale |-> 0]
          /\ number_value \in IntegersOf(p)
    /\ narrowed = NotNarrowed

NextNarrow == NarrowCell

SpecNarrow == InitNarrow /\ [][NextNarrow]_vars

\* ------------------------------------------- result columns and chunk types
\* The columns of the statement Scan executes, and the type list Scan hands
\* to ExecuteQuery with it.

\* The descriptors of the scanned table's columns, and OracleScan::Bind's
\* all_types: ToDuckDBType of each.
col_infos ==
    <<[oracle_type_name |-> "NUMBER", precision |-> 9, scale |-> 0],
      [oracle_type_name |-> "TIMESTAMP", precision |-> 0, scale |-> -127]>>
all_types == [i \in DOMAIN col_infos |-> ToDuckDBType(col_infos[i])]

\* A type of the list, with the column it was pushed for.
TypeFor(name, type) == [name |-> name, type |-> type]

\* OracleScan::Scan: projected_types, built from column_ids[i..].
RECURSIVE ProjectedTypesLoop(_, _)
ProjectedTypesLoop(bd, i) ==
    IF i > Len(bd.column_ids) THEN <<>>
    ELSE LET cid == bd.column_ids[i]
         IN IF cid = COLUMN_IDENTIFIER_ROW_ID
            THEN <<TypeFor("ROWID", LogicalType("VARCHAR"))>>
                     \o ProjectedTypesLoop(bd, i + 1)
            ELSE IF cid < Len(all_types)
            THEN <<TypeFor(bd.all_columns[cid + 1], all_types[cid + 1])>>
                     \o ProjectedTypesLoop(bd, i + 1)
            ELSE ProjectedTypesLoop(bd, i + 1)
ProjectedTypes(bd) ==
    IF bd.column_ids = <<>>
    THEN [i \in DOMAIN all_types |-> TypeFor(bd.all_columns[i], all_types[i])]
    ELSE ProjectedTypesLoop(bd, 1)

\* The items of the select list BuildSelectQuery writes for column_ids[i..],
\* unquoted.
RECURSIVE SelectItems(_, _)
SelectItems(bd, i) ==
    IF i > Len(bd.column_ids) THEN <<>>
    ELSE LET cid == bd.column_ids[i]
         IN IF cid = COLUMN_IDENTIFIER_ROW_ID
            THEN <<"ROWID">> \o SelectItems(bd, i + 1)
            ELSE IF cid < Len(bd.all_columns)
            THEN <<bd.all_columns[cid + 1]>> \o SelectItems(bd, i + 1)
            ELSE SelectItems(bd, i + 1)

\* The result columns of the statement BuildSelectQuery returns, as Oracle
\* describes them to dpiStmt_execute: `*` stands for the table's columns,
\* and the ROWNUM wrapper's outer `SELECT *` for rn__ and the columns of the
\* inner statement.
ResultColumns(bd) ==
    LET items == IF bd.column_ids = <<>> THEN <<>> ELSE SelectItems(bd, 1)
        inner == IF items = <<>> THEN bd.all_columns ELSE items
    IN IF bd.limit # INVALID_INDEX /\ bd.oracle_major_version < 12
       THEN <<"RN__">> \o inner
       ELSE inner

\* ExecuteQuery's row loop: chunk column col takes result column col + 1,
\* for col < num_cols and col < types.size(); the result column each chunk
\* column is filled from.
FilledFrom(columns, types) ==
    [i \in 1..(IF Len(columns) < Len(types) THEN Len(columns) ELSE Len(types))
        |-> columns[i]]

\* ------------------------------------------------- cells of a table column
\* A cell of a scanned column on its way into the chunk: the native type
\* ExecuteQuery selects for the column, the type Bind gave it, ToDuckDBValue.

\* dpiQueryInfo::typeInfo of a result column whose descriptor is c: the type
\* number FromQueryInfo names as c's type, with c's precision and scale.
QueryInfoOf(c) ==
    [oracleTypeNum |->
         CASE c.oracle_type_name = "VARCHAR2" -> "VARCHAR"
           [] c.oracle_type_name = "NVARCHAR2" -> "NVARCHAR"
           [] c.oracle_type_name = "TIMESTAMP WITH TIME ZONE" -> "TIMESTAMP_TZ"
           [] c.oracle_type_name = "TIMESTAMP WITH LOCAL TIME ZONE" ->
                  "TIMESTAMP_LTZ"
           [] c.oracle_type_name = "BINARY_FLOAT" -> "NATIVE_FLOAT"
           [] c.oracle_type_name = "BINARY_DOUBLE" -> "NATIVE_DOUBLE"
           [] c.oracle_type_name = "INTERVAL YEAR TO MONTH" -> "INTERVAL_YM"
           [] c.oracle_type_name = "INTERVAL DAY TO SECOND" -> "INTERVAL_DS"
           [] OTHER -> c.oracle_type_name,
     precision |-> c.precision, scale |-> c.scale]

\* The descriptors of result columns: the types FromQueryInfo names.
ResultColumnInfos ==
    {c \in Columns : c.oracle_type_name \in QueryInfoTypeNames}

InitCells ==
    /\ ConnIdle
    /\ PushdownIdle
    /\ RenderIdle
    /\ SelectIdle
    /\ column \in ResultColumnInfos
    /\ duck_type = NoType
    /\ ddl = OracleDdl("", "")
    /\ cell \in {d \in Cells : d.bytes = "ab" /\ d.num # 0}
    /\ native_type = "none"
    /\ target_type = NoType
    /\ zone = 0
    /\ converted = NotConverted
    /\ CatalogIdle
    /\ LaterIdle

\* ExecuteQuery on one cell of the column: the native type from the query
\* info, types[col] from Bind's ToDuckDBType, ToDuckDBValue.
FetchCell ==
    /\ native_type = "none"
    /\ native_type' = NativeTypeOf(QueryInfoOf(column))
    /\ target_type' = ToDuckDBType(column)
    /\ converted' = ToDuckDBValue(cell, native_type', target_type')
    /\ UNCHANGED <<column, duck_type, ddl, cell, zone>>
    /\ UNCHANGED otherThanType

NextCells == FetchCell

SpecCells == InitCells /\ [][NextCells]_vars

\* ------------------------------------------------------------- the locks
\* Each operation of the connector as the steps it takes on the mutexes: a
\* lock_guard is a lock step, the steps of its scope and an unlock step; a
\* driver call and a callback that takes no lock are run steps. The
\* connections share one connection mutex here, the schema entries one table
\* cache mutex.

LockStep(m) == [do |-> "lock", m |-> m]
UnlockStep(m) == [do |-> "unlock", m |-> m]
RunStep(what) == [do |-> "run", m |-> what]

\* std::lock_guard<std::mutex> lk(m) and the scope it guards.
Guarded(m, body) == <<LockStep(m)>> \o body \o <<UnlockStep(m)>>

\* OracleConnection::Open: GetOrCreateContext under ctx_mutex_, then
\* dpiConn_create.
OpenLocks ==
    Guarded("ctx", <<RunStep("dpiContext_createWithParams")>>)
        \o <<RunStep("dpiConn_create")>>

\* OracleConnectionPool::Acquire: an idle connection, or Open with the pool
\* mutex held. Release and ClearCache.
AcquireLocks == {Guarded("pool", <<>>), Guarded("pool", OpenLocks)}
ReleaseLocks == Guarded("pool", <<>>)
PoolClearCacheLocks == Guarded("pool", <<>>)

\* GetTables, GetColumns, ExecuteDML: the statement under the connection
\* mutex.
StatementLocks == Guarded("conn", <<RunStep("statement")>>)

\* ExecuteQuery: the statement under the connection mutex, and the callback
\* on a chunk inside it; the callbacks of Scan and of OracleQueryBind take
\* no lock.
ExecuteQueryLocks ==
    {Guarded("conn", <<RunStep("statement")>>),
     Guarded("conn", <<RunStep("statement"), RunStep("callback(chunk)")>>)}

\* `auto conn = pool_.Acquire(); conn-><statement>; pool_.Release(conn);`;
\* when the statement throws, Release is not reached.
BorrowLocks ==
    {a \o StatementLocks \o r : a \in AcquireLocks, r \in {<<>>, ReleaseLocks}}

\* OracleSchemaEntry::GetOrLoadTable: the lookup under cache_mutex_; on a
\* miss the columns read, and the insertion under cache_mutex_ when the
\* table exists.
GetOrLoadTableLocks ==
    {Guarded("table", <<>>)}
        \cup {Guarded("table", <<>>) \o b \o i :
                 b \in BorrowLocks, i \in {<<>>, Guarded("table", <<>>)}}

\* OracleSchemaEntry::Scan: the table list read, then for a table
\* GetOrLoadTable and the host's callback on the entry, no lock held.
SchemaScanLocks ==
    BorrowLocks
        \cup {b \o g \o <<RunStep("callback(entry)")>> :
                 b \in {Guarded("pool", <<>>) \o StatementLocks \o ReleaseLocks},
                 g \in GetOrLoadTableLocks}

\* OracleSchemaEntry::DropEntry: the DROP statement, then the erase under
\* cache_mutex_.
DropEntryLocks ==
    {Guarded("pool", <<>>) \o StatementLocks \o ReleaseLocks
         \o Guarded("table", <<>>)}

\* OracleCatalog::GetSchema: GetSchemaFromCache, and on a miss the double
\* check and the insertion, each under cache_mutex_.
GetSchemaLocks ==
    {Guarded("catalog", <<>>),
     Guarded("catalog", <<>>) \o Guarded("catalog", <<>>)}

\* OracleCatalog::ScanSchemas: the host's callback on each schema entry,
\* cache_mutex_ held. The callback collects the entry, or scans the schema
\* it is given.
ScanSchemasLocks ==
    {Guarded("catalog", <<RunStep("callback(schema)")>>)}
        \cup {Guarded("catalog", s) :
                 s \in {Guarded("pool", <<>>) \o StatementLocks \o ReleaseLocks
                            \o Guarded("table", <<>>)
                            \o <<RunStep("callback(entry)")>>}}

\* A mutant of ClearCacheLocks: one scope for the whole function, so that
\* PreloadSchema runs with cache_mutex_ held.
ClearCacheLocksOneScope ==
    {Guarded("catalog", PoolClearCacheLocks \o Guarded("catalog", <<>>))}

\* OracleCatalog::ClearCache: schema_cache_.clear() under cache_mutex_, the
\* pool's ClearCache, PreloadSchema.
ClearCacheLocks ==
    {Guarded("catalog", <<>>) \o PoolClearCacheLocks \o Guarded("catalog", <<>>)}

\* OracleScan::InitLocal and OracleScan::Scan: Acquire; Acquire for the
\* fetch size, then ExecuteQuery.
ScanLocks ==
    AcquireLocks
        \cup {Guarded("pool", <<>>) \o q : q \in ExecuteQueryLocks}

\* OracleCatalog::Attach: Open for the test connection.
AttachLocks == {OpenLocks}

Operations ==
    [GetSchema |-> GetSchemaLocks, ScanSchemas |-> ScanSchemasLocks,
     ClearCache |-> ClearCacheLocks, GetOrLoadTable |-> GetOrLoadTableLocks,
     SchemaScan |-> SchemaScanLocks, DropEntry |-> DropEntryLocks,
     Scan |-> ScanLocks, Attach |-> AttachLocks]

\* The mutexes thread t holds, and the one it is about to lock.
HeldBy(t) == {m \in Mutexes : lock_owner[m] = t}
Waiting(t) ==
    /\ lock_script[t] # <<>>
    /\ Head(lock_script[t]).do = "lock"
    /\ lock_owner[Head(lock_script[t]).m] # 0

\* A thread enters an operation.
BeginOperation(t) ==
    /\ lock_script[t] = <<>>
    /\ \E op \in DOMAIN Operations :
          \E s \in Operations[op] :
             /\ lock_script' = [lock_script EXCEPT ![t] = s]
             /\ lock_op' = [lock_op EXCEPT ![t] = op]
    /\ UNCHANGED lock_owner
    /\ UNCHANGED otherThanLocks

\* std::mutex::lock: taken when no thread holds the mutex; a thread that
\* holds it already waits for itself.
TakeLock(t) ==
    /\ lock_script[t] # <<>>
    /\ Head(lock_script[t]).do = "lock"
    /\ lock_owner[Head(lock_script[t]).m] = 0
    /\ lock_owner' = [lock_owner EXCEPT ![Head(lock_script[t]).m] = t]
    /\ lock_script' = [lock_script EXCEPT ![t] = Tail(@)]
    /\ UNCHANGED lock_op
    /\ UNCHANGED otherThanLocks

\* The lock_guard's destructor.
DropLock(t) ==
    /\ lock_script[t] # <<>>
    /\ Head(lock_script[t]).do = "unlock"
    /\ lock_owner' = [lock_owner EXCEPT ![Head(lock_script[t]).m] = 0]
    /\ lock_script' = [lock_script EXCEPT ![t] = Tail(@)]
    /\ lock_op' = [lock_op EXCEPT ![t] = IF Len(lock_script[t]) = 1
                                         THEN "none" ELSE @]
    /\ UNCHANGED otherThanLocks

\* A driver call or a callback returns.
RunOn(t) ==
    /\ lock_script[t] # <<>>
    /\ Head(lock_script[t]).do = "run"
    /\ lock_script' = [lock_script EXCEPT ![t] = Tail(@)]
    /\ lock_op' = [lock_op EXCEPT ![t] = IF Len(lock_script[t]) = 1
                                         THEN "none" ELSE @]
    /\ UNCHANGED lock_owner
    /\ UNCHANGED otherThanLocks

\* A step of thread t inside its operation.
Proceed(t) == TakeLock(t) \/ DropLock(t) \/ RunOn(t)

InitLocks == EarlierIdle /\ LaterIdle

NextLocks ==
    \E t \in Threads :
        \/ BeginOperation(t)
        \/ TakeLock(t)
        \/ DropLock(t)
        \/ RunOn(t)

SpecLocks == InitLocks /\ [][NextLocks]_vars

\* Fairness: a thread inside an operation keeps running, every driver call
\* and callback returns, and a thread at a lock that is free again and
\* again gets it.
FairSpecLocks == SpecLocks /\ \A t \in Threads : SF_vars(Proceed(t))

\* ------------------------------------------------------- the statements
\* The statement an operation of OracleConnection prepares:
\* dpiConn_prepareStmt hands it out with one reference, which one
\* dpiStmt_release gives back. The operations of one connection run one
\* after the other, under OracleConnection::mutex_.

\* OracleConnection::GetTables and GetColumns on a result of nrows rows:
\* ThrowIfError leaves the function on a prepare or an execute that failed;
\* the loop ends at the first fetch that fails or finds no row, and
\* dpiStmt_release follows the loop.
MetadataStatement(nrows, drv) ==
    IF ~drv.prepareOk
    THEN [prepared |-> 0, releases |-> 0, raised |-> TRUE,
          stopped |-> FALSE, rows |-> 0]
    ELSE IF ~drv.executeOk
    THEN [prepared |-> 1, releases |-> 0, raised |-> TRUE,
          stopped |-> FALSE, rows |-> 0]
    ELSE [prepared |-> 1, releases |-> 1, raised |-> FALSE,
          stopped |-> FALSE,
          rows |-> IF drv.fetchErrAt \in 1..nrows THEN drv.fetchErrAt - 1
                   ELSE nrows]

\* OracleConnection::ExecuteQuery: the statement of the call, `stopped` when
\* the callback returned false on a full chunk.
QueryStatement(nrows, drv, cb, build) ==
    LET r == ExecuteQuery(nrows, drv, cb, build)
    IN [prepared |-> IF drv.prepareOk THEN 1 ELSE 0,
        releases |-> IF r.released = -1 THEN 0 ELSE 1,
        raised |-> r.raised,
        stopped |-> /\ r.calls # <<>>
                    /\ r.calls[1].card = STANDARD_VECTOR_SIZE
                    /\ ~r.calls[1].ret,
        rows |-> nrows]

\* OracleConnection::ExecuteDML: dpiStmt_release comes between
\* dpiStmt_execute and the ThrowIfError on its return code.
DMLStatement(drv) ==
    IF ~drv.prepareOk
    THEN [prepared |-> 0, releases |-> 0, raised |-> TRUE,
          stopped |-> FALSE, rows |-> 0]
    ELSE [prepared |-> 1, releases |-> 1, raised |-> ~drv.executeOk,
          stopped |-> FALSE, rows |-> 0]

\* What is kept of a call: the operation, what it was given (the rows of the
\* result, what the driver did and, for ExecuteQuery, the callback and the
\* build), and what became of its statement.
StmtRecord(op, given, r) ==
    [op |-> op, given |-> given, prepared |-> r.prepared,
     releases |-> r.releases, raised |-> r.raised, stopped |-> r.stopped,
     rows |-> r.rows]

CallGetTables ==
    /\ \E nrows \in 0..MaxQueryRows :
         \E drv \in DriverOutcomes(nrows) :
            stmt_call' = StmtRecord("GetTables", <<nrows, drv>>,
                                    MetadataStatement(nrows, drv))
    /\ UNCHANGED otherThanStmt

CallGetColumns ==
    /\ \E nrows \in 0..MaxQueryRows :
         \E drv \in DriverOutcomes(nrows) :
            stmt_call' = StmtRecord("GetColumns", <<nrows, drv>>,
                                    MetadataStatement(nrows, drv))
    /\ UNCHANGED otherThanStmt

CallExecuteQuery ==
    /\ \E nrows \in 0..MaxQueryRows, cb \in Callbacks, build \in Builds :
         \E drv \in DriverOutcomes(nrows) :
            stmt_call' = StmtRecord("ExecuteQuery", <<nrows, drv, cb, build>>,
                                    QueryStatement(nrows, drv, cb, build))
    /\ UNCHANGED otherThanStmt

CallExecuteDML ==
    /\ \E drv \in DriverOutcomes(0) :
          /\ drv.fetchErrAt = 0
          /\ stmt_call' = StmtRecord("ExecuteDML", <<0, drv>>,
                                     DMLStatement(drv))
    /\ UNCHANGED otherThanStmt

InitStmt == EarlierIdle /\ LaterIdle

NextStmt ==
    \/ CallGetTables
    \/ CallGetColumns
    \/ CallExecuteQuery
    \/ CallExecuteDML

SpecStmt == InitStmt /\ [][NextStmt]_vars

\* ------------------------------------------------------------ properties

\* The connections a caller is using: between its Acquire and its Release
\* (metadata callers), or for the life of its local state (a scan).
InUse(t) ==
    IF pc[t] = "meta" THEN {conn[t]}
    ELSE IF pc[t] \in {"scan", "failed"} THEN {local[t].connection}
    ELSE {}

\* C1: no connection is in use by two callers at the same time, and a
\* connection that a caller holds is not idle in the pool (so Acquire cannot
\* hand it out again before its Release); the idle list has no duplicates.
C1_ExclusiveUse ==
    /\ \A t, u \in Threads : t # u => InUse(t) \cap InUse(u) = {}
    /\ \A t \in Threads : InUse(t) \cap Range(pool_) = {}
    /\ \A i, j \in DOMAIN pool_ : i # j => pool_[i] # pool_[j]
    /\ \A t \in Threads : NoConn \notin InUse(t)

\* C1 witness: two callers hold connections at once, the later of them
\* handed out from the idle list, where a Release had put it.
C1_Witness ==
    /\ poolOp = "acquire idle"
    /\ \E t, u \in Threads : t # u /\ InUse(t) # {} /\ InUse(u) # {}

\* C2: the idle list never holds more than max_connections_ connections.
C2_PoolWithinCap == Len(pool_) <= max_connections_

\* C2 witness: a Release found the list at the cap and dropped the
\* connection.
C2_Witness == poolOp = "release dropped" /\ Len(pool_) = max_connections_

\* C3: when no driver call fails, repeated scan() calls on a local state
\* eventually set its done flag (unless the host ends the scan first).
C3_EventuallyDone ==
    [](~last.fetchFailed /\ ~last.raised) =>
        ((pc[ScanThread] = "scan") ~>
            (local[ScanThread].done \/ pc[ScanThread] # "scan"))

RECURSIVE ConcatData(_)
ConcatData(chunks) ==
    IF chunks = <<>> THEN <<>>
    ELSE chunks[1].data \o ConcatData(Tail(chunks))

\* C4: the chunks delivered so far, concatenated, are the first rows of the
\* result in fetch order, each once, every chunk holding as many rows as its
\* cardinality says; when a call whose fetches all succeeded sets the done
\* flag, they are the whole result.
C4_ExactlyOnceInOrder ==
    LET rows == ConcatData(delivered)
    IN /\ \A i \in DOMAIN delivered :
             delivered[i].card = Len(delivered[i].data)
       /\ \A i \in DOMAIN rows : rows[i] = i
       /\ (pc[ScanThread] = "scan" /\ local[ScanThread].done
              /\ last.op = "Scan" /\ ~last.wasDone /\ ~last.fetchFailed
              /\ Len(delivered) < MaxHist) => Len(rows) = tableRows

\* C5: in one ExecuteQuery call, a callback invocation that returned false
\* is the last one.
C5_StopAfterFalse ==
    \A i \in DOMAIN last.calls : ~last.calls[i].ret => i = Len(last.calls)

\* C6: a failed fetch makes the call raise an error, and no chunk is
\* delivered after it.
C6_FetchErrorSurfaces ==
    last.fetchFailed => (last.raised /\ last.afterError = 0)

\* C7: a scan() call on a local state that is done returns a zero-row chunk,
\* calls neither the driver nor the pool, and changes no state of the scan.
C7_DoneIsFinal ==
    [][(local[ScanThread].done /\ Scan(ScanThread)) =>
          /\ last'.out.card = 0
          /\ last'.acquires = 0
          /\ last'.prepares = 0
          /\ last'.calls = <<>>
          /\ UNCHANGED <<max_connections_, pool_, poolOp, pc, conn, gstate,
                         local, tableRows, delivered>>]_vars

\* C7 witness: scan() has been called on a local state that was done.
C7_Witness == local[ScanThread].done /\ last.wasDone

\* C8: no scan() call invokes the pool's Acquire.
C8_NoAcquireInScan == last.op = "Scan" => last.acquires = 0

\* The rows the scan gives the host's plan: those Oracle's WHERE clause
\* (the fragments joined by AND) keeps and the host's remaining filters keep.
RowPassesPushed(row) ==
    /\ \A i \in DOMAIN bind_filters : OracleEval(bind_filters[i], row) = "TRUE"
    /\ \A i \in DOMAIN filters : HostEval(filters[i], row) = "TRUE"

\* The rows the host's plan keeps when nothing is pushed down.
RowPassesOriginal(row) ==
    \A i \in DOMAIN required : HostEval(required[i], row) = "TRUE"

\* C9: pushdown is safe: on every table, the rows left after Oracle applied
\* the pushed fragments and the host the remaining filters are the rows the
\* host's filters alone would leave.
C9_PushdownSafe ==
    \A row \in RowUniverse : RowPassesPushed(row) <=> RowPassesOriginal(row)

\* C10: PushdownFilters partitions its input: the fragments it appends are
\* the non-empty renderings, in input order, after the fragments that were
\* there, which it leaves alone; the host's list is left holding the other
\* filters, in input order.
C10_Partition ==
    LET pushed == {i \in DOMAIN input :
                      ExpressionToSQL(input[i], col_names) # EmptySql}
        rest == DOMAIN input \ pushed
        Rank(S, i) == Cardinality({j \in S : j <= i})
    IN /\ Len(bind_filters) = Len(before) + Cardinality(pushed)
       /\ Len(filters) = Cardinality(rest)
       /\ \A k \in DOMAIN before : bind_filters[k] = before[k]
       /\ \A i \in pushed :
             bind_filters[Len(before) + Rank(pushed, i)] =
                 ExpressionToSQL(input[i], col_names)
       /\ \A i \in rest : filters[Rank(rest, i)] = input[i]

\* C10 witness: a call that found fragments in the bind data pushed one
\* filter and left another to the host.
C10_Witness ==
    /\ before # <<>>
    /\ Len(bind_filters) > Len(before)
    /\ filters # <<>>
    /\ Len(input) > Len(filters)

\* A node that is one of the pushable cases, whatever is below it.
NodePushable(expr) ==
    CASE expr.class = "BOUND_COMPARISON" ->
             expr.type \in ComparisonTypes \ {"COMPARE_DISTINCT_FROM"}
      [] expr.class = "BOUND_CONJUNCTION" ->
             expr.type \in {"CONJUNCTION_AND", "CONJUNCTION_OR"}
      [] expr.class = "BOUND_FUNCTION" ->
             \/ expr.type \in {"isnull", "isnotnull"} /\ Len(expr.children) = 1
             \/ expr.type = "~~" /\ Len(expr.children) = 2
      [] expr.class = "BOUND_CONSTANT" ->
             \/ expr.value.is_null
             \/ expr.value.type \in {"BOOLEAN", "TINYINT", "SMALLINT", "INTEGER",
                                     "BIGINT", "TIMESTAMP"}
      [] expr.class = "BOUND_COLUMN_REF" -> expr.column_index < Len(col_names)
      [] OTHER -> FALSE

RECURSIVE AllPushable(_)
AllPushable(expr) ==
    /\ NodePushable(expr)
    /\ \A i \in DOMAIN expr.children : AllPushable(expr.children[i])

RECURSIVE ExprNodes(_)
ExprNodes(expr) ==
    IF expr.children = <<>> THEN 1
    ELSE 1 + ExprNodes(expr.children[1])
           + (IF Len(expr.children) > 1 THEN ExprNodes(expr.children[2]) ELSE 0)

RECURSIVE SqlNodes(_)
SqlNodes(s) ==
    IF s.args = <<>> THEN 1
    ELSE 1 + SqlNodes(s.args[1])
           + (IF Len(s.args) > 1 THEN SqlNodes(s.args[2]) ELSE 0)

\* C11: ExpressionToSQL is all-or-nothing: its result is non-empty only if
\* every node of the tree is a pushable case, and then it spells every node
\* of the tree; one node that is not pushable, at any depth, empties it.
C11_AllOrNothing ==
    /\ ~AllPushable(tree) => rendered = EmptySql
    /\ rendered # EmptySql => SqlNodes(rendered) = ExprNodes(tree)

\* C11 witness: the root and its children are pushable cases, and a node
\* below them is not.
C11_Witness ==
    /\ NodePushable(tree)
    /\ \A i \in DOMAIN tree.children : NodePushable(tree.children[i])
    /\ ~AllPushable(tree)
    /\ rendered = EmptySql

\* ------------------------------------------------------- the SELECT statement

\* The select list the statement is to have for a list of column ids: each
\* id that is the row-id sentinel or a column of the table, in order.
ExpectedItems(ids) ==
    LET named == SelectSeq(ids, LAMBDA c : c = COLUMN_IDENTIFIER_ROW_ID
                                           \/ (c >= 0 /\ c < Len(col_names)))
    IN [i \in DOMAIN named |->
           IF named[i] = COLUMN_IDENTIFIER_ROW_ID THEN "ROWID"
           ELSE "\"" \o col_names[named[i] + 1] \o "\""]

ExpectedSelect(ids, fs) ==
    "SELECT "
    \o (IF ExpectedItems(ids) = <<>> THEN "*" ELSE Join(ExpectedItems(ids), ", "))
    \o " FROM \"HR\".\"EMPLOYEES\""
    \o (IF fs = <<>> THEN ""
        ELSE " WHERE " \o Join([i \in DOMAIN fs |-> SqlText(fs[i])], " AND "))

\* The ranks (1-based positions in the inner query's result of n rows) of the
\* rows Oracle returns for a statement.
OracleRanks(stmt, n) ==
    CASE stmt.form = "plain" -> 1..n
      [] stmt.form = "fetch first" ->
             {r \in 1..n : r > stmt.offset_rows
                           /\ r <= stmt.offset_rows + stmt.fetch_rows}
      [] stmt.form = "rownum" ->
             {r \in 1..n : r <= stmt.rownum_max /\ r > stmt.rn_min}

\* C12: for a scan initialised with the projected column ids P, the SELECT
\* statement scan() executes lists exactly the columns of P, in order (ROWID
\* for the row-id sentinel).
C12_ProjectionReachesQuery ==
    query.form # "none" => query.text = ExpectedSelect(projection, bind_filters)

\* C13: the statement BuildSelectQuery builds selects * for an empty column
\* list, else the listed columns in order (ROWID for the sentinel, the quoted
\* name for an id in range, nothing for an id out of range, * when nothing is
\* left), from "schema"."table", with a WHERE of the stored fragments joined
\* by AND in stored order exactly when there are stored fragments.
C13_SelectFromWhere ==
    query.form # "none" =>
        LET base == ExpectedSelect(column_ids, bind_filters)
        IN /\ limit = INVALID_INDEX => query.text = base
           /\ (limit # INVALID_INDEX /\ oracle_major_version >= 12) =>
                  \E tail \in {"", " OFFSET " \o ToString(offset) \o " ROWS"} :
                      query.text = base \o tail \o " FETCH FIRST "
                                       \o ToString(limit) \o " ROWS ONLY"
C13_Witness ==
    /\ query.form # "none"
    /\ limit = INVALID_INDEX
    /\ Len(column_ids) = 3
    /\ column_ids[1] = COLUMN_IDENTIFIER_ROW_ID
    /\ column_ids[2] = Len(col_names)
    /\ column_ids[3] = 0
    /\ Len(bind_filters) = 2
    /\ query.text = "SELECT ROWID, \"ID\" FROM \"HR\".\"EMPLOYEES\" WHERE "
                        \o SqlText(bind_filters[1]) \o " AND "
                        \o SqlText(bind_filters[2])

\* C14: with a limit k and an offset o the statement returns the rows of rank
\* o+1 .. o+k of the inner query: on a server of version 12 or later by
\* " OFFSET o ROWS" (exactly when o > 0) and " FETCH FIRST k ROWS ONLY", on an
\* earlier one by the wrapper with ROWNUM <= o+k and rn__ > o; with no limit
\* the statement has no row-limiting text.
C14_LimitOffset ==
    query.form # "none" =>
        LET base == ExpectedSelect(column_ids, bind_filters)
        IN IF limit = INVALID_INDEX
           THEN query.form = "plain" /\ query.text = base
           ELSE /\ \A n \in 0..(2 * MaxLimit + 1) :
                       OracleRanks(query, n) =
                           {r \in 1..n : r >= offset + 1 /\ r <= offset + limit}
                /\ oracle_major_version >= 12 =>
                       /\ query.form = "fetch first"
                       /\ query.text =
                              base
                              \o (IF offset > 0
                                  THEN " OFFSET " \o ToString(offset) \o " ROWS"
                                  ELSE "")
                              \o " FETCH FIRST " \o ToString(limit) \o " ROWS ONLY"
                /\ oracle_major_version < 12 =>
                       /\ query.form = "rownum"
                       /\ query.text =
                              "SELECT * FROM (SELECT ROWNUM rn__, t__.* FROM ("
                              \o base \o ") t__ WHERE ROWNUM <= "
                              \o ToString(offset + limit) \o ") WHERE rn__ > "
                              \o ToString(offset)
C14_Witness ==
    /\ query.form = "rownum"
    /\ limit = MaxLimit
    /\ offset = 1
    /\ OracleRanks(query, 2 * MaxLimit + 1) = 2..(1 + MaxLimit)

\* ------------------------------------------------------------- type mapping

\* The table of Oracle descriptors and host types.
TableType(c) ==
    LET integral == c.scale \in {0, -127}
        unspecified == c.precision = 0 /\ c.scale = -127
    IN CASE c.oracle_type_name = "NUMBER" /\ unspecified -> LogicalType("DOUBLE")
         [] c.oracle_type_name = "NUMBER" /\ ~unspecified /\ integral
                /\ c.precision <= 38 ->
                LogicalType(CASE c.precision <= 4 -> "SMALLINT"
                              [] c.precision \in 5..9 -> "INTEGER"
                              [] c.precision \in 10..18 -> "BIGINT"
                              [] c.precision \in 19..38 -> "HUGEINT")
         [] c.oracle_type_name = "NUMBER" /\ ~unspecified
                /\ ~(integral /\ c.precision <= 38)
                /\ c.scale >= 0 /\ c.precision > 0 ->
                [id |-> "DECIMAL", width |-> c.precision, scale |-> c.scale]
         [] c.oracle_type_name = "NUMBER" /\ ~unspecified
                /\ ~(integral /\ c.precision <= 38)
                /\ ~(c.scale >= 0 /\ c.precision > 0) -> LogicalType("DOUBLE")
         [] c.oracle_type_name \in {"VARCHAR2", "NVARCHAR2", "CHAR", "NCHAR",
                                    "ROWID", "CLOB", "NCLOB"} ->
                LogicalType("VARCHAR")
         [] c.oracle_type_name \in {"DATE", "TIMESTAMP",
                                    "TIMESTAMP WITH LOCAL TIME ZONE"} ->
                LogicalType("TIMESTAMP")
         [] c.oracle_type_name = "TIMESTAMP WITH TIME ZONE" ->
                LogicalType("TIMESTAMP_TZ")
         [] c.oracle_type_name \in {"BLOB", "RAW"} -> LogicalType("BLOB")
         [] c.oracle_type_name = "BINARY_FLOAT" -> LogicalType("FLOAT")
         [] c.oracle_type_name = "BINARY_DOUBLE" -> LogicalType("DOUBLE")
         [] c.oracle_type_name \in {"INTERVAL YEAR TO MONTH",
                                    "INTERVAL DAY TO SECOND"} ->
                LogicalType("INTERVAL")
         [] OTHER -> LogicalType("VARCHAR")

\* C15: ToDuckDBType gives every descriptor the host type of the table:
\* DOUBLE for a NUMBER of precision 0 and scale -127; SMALLINT, INTEGER,
\* BIGINT, HUGEINT for a NUMBER of scale 0 or -127 and precision up to 4, 9,
\* 18, 38; DECIMAL(precision, scale) for another NUMBER of scale >= 0 and
\* precision > 0; DOUBLE for any other NUMBER; VARCHAR for an unknown name.
C15_TypeTable ==
    duck_type # NoType =>
        /\ duck_type = TableType(column)
        /\ column.oracle_type_name \in DataTypeNames =>
               duck_type = LogicalType("VARCHAR")
C15_Witness ==
    /\ column = [oracle_type_name |-> "NUMBER", precision |-> 10, scale |-> 2]
    /\ duck_type = [id |-> "DECIMAL", width |-> 10, scale |-> 2]

\* C16: the Oracle type ToOracleType names for the host type of a descriptor
\* is of the same category as the descriptor's Oracle type.
C16_CategoryPreserved ==
    ddl.type # "" =>
        OracleCategory(ddl.type) = OracleCategory(column.oracle_type_name)

\* ---------------------------------------------------------- cell conversion

\* C17: a cell the driver flags as null converts to the typed null of the
\* target type, whatever the native type, and no field of the cell's value
\* is read.
C17_NullCell ==
    (converted # NotConverted /\ cell.isNull) =>
        /\ converted.is_null
        /\ converted.type = target_type
        /\ converted.reads = {}
C17_Witness ==
    /\ converted # NotConverted
    /\ cell.isNull
    /\ native_type = "TIMESTAMP"
    /\ target_type = DECIMAL(10, 2)
    /\ converted.is_null

\* C18: the instant of a timestamp cell is the UTC epoch seconds of its
\* fields times 10^6 plus fsecond / 1000, for a TIMESTAMP_TZ target minus the
\* cell's zone offset; it is the same in every local time zone of the process.
C18_InstantFromFields ==
    (converted # NotConverted /\ ~cell.isNull /\ native_type = "TIMESTAMP") =>
        LET ts == cell.asTimestamp
            tz == IF target_type.id = "TIMESTAMP_TZ"
                  THEN (ts.tzHourOffset * 60 + ts.tzMinuteOffset) * 60
                  ELSE 0
        IN converted.payload = Micros(TimeGm(ts) - tz, ts.fsecond \div 1000)

\* ------------------------------------------------------------ OracleCatalog

\* C19: when ClearCache has returned and no other catalog operation ran
\* during the call, the schema cache holds one entry, under the effective
\* default schema, constructed during the call and with an empty table cache;
\* the pool's idle list is empty; and the next GetSchema of the default
\* schema returns that entry.
C19_AfterClearCache ==
    /\ [](lastOp.op = "ClearCache" /\ lastOp.quiet =>
              /\ {u \in UpperNames : schema_cache_[u] # NoEntry}
                     = {GetEffectiveSchema}
              /\ schema_cache_[GetEffectiveSchema] \notin lastOp.before
              /\ table_cache_[schema_cache_[GetEffectiveSchema]] = {}
              /\ pool_ = <<>>)
    /\ [][\A t \in Threads, n \in Names :
              (/\ lastOp.op = "ClearCache"
               /\ lastOp.quiet
               /\ ToUpper(n) = GetEffectiveSchema
               /\ GetSchemaFromCache(t, n))
              => schema_ptr'[t] = schema_cache_[GetEffectiveSchema]]_vars
C19_Witness ==
    /\ lastOp.op = "ClearCache"
    /\ lastOp.quiet
    /\ lastOp.hadIdle
    /\ lastOp.hadLoaded
    /\ lastOp.hadOthers
    /\ schema_cache_[GetEffectiveSchema] = MaxEntries

\* C20: GetSchema does no Oracle I/O and takes no pool connection, and the
\* GetSchema calls between two ClearCache calls, sequential or concurrent,
\* return one and the same entry for names with the same upper-case form.
C20_OneEntryPerName ==
    /\ [](\A u \in UpperNames : Cardinality(returned[u]) <= 1)
    /\ [][\A t \in Threads :
              ((\E n \in Names : GetSchemaFromCache(t, n)) \/ GetSchemaCreate(t))
              => UNCHANGED <<pool_, conn, poolOp>>]_vars
C20_Witness ==
    /\ lastOp.op = "GetSchema, double check"
    /\ lastOp.quiet
    /\ schema_cache_[ToUpper("sales")] # NoEntry
    /\ schema_ptr[lastOp.thread] = schema_cache_[ToUpper("sales")]
    /\ returned[ToUpper("sales")] = {schema_cache_[ToUpper("sales")]}

\* ------------------------------------------------------- C21
\* C21: a metadata read in which the driver fails (in prepare, execute or
\* fetch of list_columns / list_tables) ends with an error for the caller:
\* the lookup does not return null, the listing does not return a list, and
\* every cached table entry holds the table's whole column list.
C21_MetadataErrorPropagates ==
    /\ (lastLoad.driver # "none" /\ lastLoad.outcome # "inserted")
           => lastLoad.outcome = "error"
    /\ \A u \in UpperTables :
           table_map[u] # NoTable => table_map[u].columns = DictColumns(u)

\* ------------------------------------------------------- C25
\* C25: the insertion of GetOrLoadTable re-checks the cache: an entry
\* already stored under the name is never replaced by a later insertion, so
\* concurrent misses of one name leave one inserted entry.
C25_NoReplacement ==
    [][\A u \in UpperTables :
          table_map[u] # NoTable => table_map'[u] = table_map[u]]_vars

\* ------------------------------------------------------- C22
\* C22: oracle_clear_cache(db_name) returns 1 exactly when the cache of the
\* catalog named db_name was cleared successfully, and 0 otherwise; each
\* row gets one of the two values (no error escapes).
C22_OneIffCleared ==
    \A i \in DOMAIN fn_call :
        /\ fn_call[i].result \in {0, 1}
        /\ fn_call[i].result = 1 <=> fn_call[i].cleared

\* ------------------------------------------------------- C23
\* The string literals Oracle reads in a statement text, from `i` on: a
\* literal opens at a quote and closes at the next quote that is not the
\* first of a doubled pair; close is 0 when the text ends inside it.
RECURSIVE StringLiterals(_, _, _)
StringLiterals(text, i, open) ==
    IF i > Len(text)
    THEN (IF open = 0 THEN <<>> ELSE <<[open |-> open, close |-> 0]>>)
    ELSE IF open = 0
    THEN StringLiterals(text, i + 1, IF text[i] = "'" THEN i ELSE 0)
    ELSE IF text[i] # "'" THEN StringLiterals(text, i + 1, open)
    ELSE IF i < Len(text) /\ text[i + 1] = "'"
    THEN StringLiterals(text, i + 2, open)
    ELSE <<[open |-> open, close |-> i]>> \o StringLiterals(text, i + 1, 0)

\* C23: in every statement the connector builds (filter fragments and the
\* dictionary queries), what was written for a string value is one string
\* literal: it opens at the value's opening quote and ends at its closing
\* quote, whatever the value.
C23_ValueIsOneLiteral ==
    \A l \in Range(emitted.literals) :
        l \in Range(StringLiterals(emitted.text, 1, 0))

\* ------------------------------------------------------- C24
\* C24: for every parameters value p, parsing p.BuildConnectString() gives
\* back p's host, port and service name.
C24_RoundTrip ==
    connect_string = BuildConnectString(params)
        => /\ ~parsed.threw
           /\ Chars(parsed.host) = Chars(params.host)
           /\ parsed.port = params.port
           /\ Chars(parsed.service_name) = Chars(params.service_name)

\* ------------------------------------------------------- C26
\* Every connection there is: idle in the pool or held by a thread.
OpenConnections ==
    (Range(idle_conns) \cup {opener[t].held : t \in Threads}) \ {0}

\* C26: under every interleaving of Open calls the driver context is created
\* at most once, every connection carries that one context, and a creation
\* that fails leaves global_ctx_ null (so the next Open tries again).
C26_OneContext ==
    /\ [](contexts_created <= 1)
    /\ [](\A c \in OpenConnections : c = global_ctx_)
    /\ [][\A t \in Threads :
            (opener[t].pc = "context" /\ opener'[t].result = "context error")
                => global_ctx_' = 0]_vars

\* A creation failed, a later Open created the context, and connections
\* opened by two calls are there.
C26_Witness ==
    /\ failed_before
    /\ contexts_created = 1
    /\ \E t \in Threads :
          opener[t].held # 0 /\ opener[t].result = "new connection"
    /\ idle_conns # <<>>

\* ------------------------------------------------------- C27
\* C27: a thread that holds the pool's mutex takes no other lock and makes
\* no blocking driver call: it is not inside Open, it neither waits for nor
\* holds ctx_mutex_, and it is not in dpiConn_create.
C27_PoolLockIsLeaf ==
    \A t \in Threads :
        pool_mutex_ = t
            => /\ ctx_mutex_ # t
               /\ opener[t].pc \notin {"open", "context", "connect"}

\* ------------------------------------------------------- C28
\* The threads between the prepare of a statement and its release.
InStatement == {t \in Threads : caller[t].pc \in {"prepared", "executed"}}

\* C28: on one connection at most one operation is between its prepare and
\* its statement release at any time, whatever the threads that call in,
\* and a thread outside every operation, whether its last one returned or
\* threw, does not hold the connection mutex.
C28_OneStatementAtATime ==
    /\ Cardinality(InStatement) <= 1
    /\ \A t \in Threads :
          caller[t].pc \in {"idle", "enter"} => conn_mutex_ # t

\* One thread is in the fetch loop of a query while another has called
\* ExecuteDML on the same connection and waits at the lock.
C28_Witness ==
    \E t \in Threads, u \in Threads :
        /\ caller[t].op = "ExecuteQuery" /\ caller[t].pc = "executed"
        /\ caller[u].op = "ExecuteDML" /\ caller[u].pc = "enter"
        /\ caller[u].result = "none"

\* ------------------------------------------------------- C29
RECURSIVE SumCards(_)
SumCards(calls) ==
    IF calls = <<>> THEN 0 ELSE Head(calls).card + SumCards(Tail(calls))

\* The rows the driver handed over in the last call.
RowsFetched ==
    IF query_call.result.fetchFailed THEN query_call.drv.fetchErrAt - 1
    ELSE query_call.nrows

\* C29: in an ExecuteQuery call whose callback always returns true, over a
\* result of N rows: every delivered chunk has 1..STANDARD_VECTOR_SIZE rows,
\* every chunk but the last has exactly STANDARD_VECTOR_SIZE, the
\* cardinalities add up to N (to the rows fetched, when a fetch failed), no
\* chunk is delivered for no row, and the statement is released after the
\* last delivery.
C29_Chunking ==
    (query_call.op = "ExecuteQuery" /\ query_call.cb.ret
       /\ query_call.drv.prepareOk /\ query_call.drv.executeOk)
        => LET calls == query_call.result.calls
           IN /\ ~query_call.result.raised
              /\ \A i \in DOMAIN calls :
                    /\ calls[i].card \in 1..STANDARD_VECTOR_SIZE
                    /\ i < Len(calls) => calls[i].card = STANDARD_VECTOR_SIZE
              /\ SumCards(calls) = RowsFetched
              /\ RowsFetched = 0 => calls = <<>>
              /\ query_call.result.released = Len(calls)

\* A result of two full chunks and a partial one, all rows fetched and
\* delivered to a callback that returns true.
C29_Witness ==
    /\ query_call.op = "ExecuteQuery" /\ query_call.cb.ret
    /\ query_call.nrows = 2 * STANDARD_VECTOR_SIZE + 1
    /\ ~query_call.result.fetchFailed
    /\ Len(query_call.result.calls) = 3
    /\ query_call.result.released = 3

\* ------------------------------------------------------- C30
\* What one Acquire call by thread t, which got `got`, did to the pool.
AcquireEffect(t, got) ==
    /\ pool_ # <<>>
          => /\ poolOp' = "acquire idle"
             /\ got = pool_[Len(pool_)]
             /\ Len(pool_') = Len(pool_) - 1
             /\ LiveConns' = LiveConns
    /\ pool_ = <<>>
          => /\ pool_' = <<>>
             /\ \/ /\ poolOp' = "acquire opened"
                   /\ got # NoConn /\ got \notin LiveConns
                   /\ LiveConns' = LiveConns \cup {got}
                \/ /\ poolOp' = "acquire threw"
                   /\ got = NoConn
                   /\ pc'[t] = "idle"
                   /\ LiveConns' = LiveConns

\* C30: Acquire opens a connection only when the idle list is empty. With
\* idle connections it returns one of them, opens nothing and the list
\* shrinks by one; with none it opens exactly one connection and the list
\* stays empty, or the open fails, the error propagates and the list and the
\* connections are as before.
C30_AcquireOpensOnlyWhenEmpty ==
    [][\A t \in Threads :
          /\ MetaAcquire(t) => AcquireEffect(t, conn'[t])
          /\ InitLocal(t) => AcquireEffect(t, local'[t].connection)]_vars

\* An Acquire took one of two idle connections; and before that an Acquire
\* on the empty list had opened them.
C30_Witness ==
    /\ poolOp = "acquire idle"
    /\ Len(pool_) = 1
    /\ \E t \in Threads : pc[t] = "meta" /\ conn[t] \notin Range(pool_)

\* ------------------------------------------------------- C31

\* The connections that a metadata caller or a scan holds.
HeldConns == LiveConns \ Range(pool_)

\* C31: the pool's ClearCache removes exactly the idle connections and
\* changes nothing else. The idle list is empty after it, every connection
\* that a metadata caller or a scan holds is still held by the same thread
\* and still exists, and the cap is as before; a Release that follows the
\* clear stores its connection, which was acquired before the clear, in the
\* idle list.
C31_ClearDropsOnlyIdle ==
    [][/\ ClearCache
          => /\ pool_' = <<>>
             /\ LiveConns' = HeldConns
             /\ HeldConns' = HeldConns
             /\ max_connections_' = max_connections_
             /\ UNCHANGED <<pc, conn, local>>
       /\ \A t \in Threads :
             poolOp = "clear" /\ MetaRelease(t)
                => /\ conn[t] \in HeldConns
                   /\ pool_' = <<conn[t]>>
                   /\ poolOp' = "release stored"]_vars

\* ClearCache has acted while one thread held a connection, opened when
\* another connection existed.
C31_Witness ==
    /\ poolOp = "clear"
    /\ pool_ = <<>>
    /\ \E t \in Threads : pc[t] = "meta" /\ conn[t] > 1

\* ------------------------------------------------------- C32

C33_NarrowingIsLossless ==
    narrowed # NotNarrowed
        => /\ narrowed.native = "INT64"
           /\ narrowed.type = (IF number_info.precision <= 4 THEN "SMALLINT"
                               ELSE IF number_info.precision <= 9
                               THEN "INTEGER" ELSE "BIGINT")
           /\ Len(narrowed.words) = (CASE narrowed.type = "SMALLINT" -> 1
                                       [] narrowed.type = "INTEGER" -> 2
                                       [] narrowed.type = "BIGINT" -> 4)
           /\ HostInteger(narrowed.words) = number_value

\* The smallest integer of a NUMBER(9) column has become an INTEGER.
C33_Witness ==
    /\ narrowed.type = "INTEGER"
    /\ number_info.precision = 9
    /\ number_value = [neg |-> TRUE, digits |-> Nines(9)]
    /\ HostInteger(narrowed.words) = number_value

\* ------------------------------------------------------- C34

\* C34: the result columns of the statement Scan executes and the type list
\* Scan builds correspond one to one and in position: there are as many
\* result columns as types, result column i is the column the i-th type was
\* pushed for, and so every chunk column is filled from its own column. This
\* for any projection, with or without a limit, on any server version.
C34_ColumnsMatchTypes ==
    query.form # "none"
        => LET columns == ResultColumns(BindData)
               types == ProjectedTypes(BindData)
           IN /\ Len(columns) = Len(types)
              /\ \A i \in DOMAIN types : columns[i] = types[i].name
              /\ FilledFrom(columns, types)
                     = [i \in DOMAIN types |-> types[i].name]

\* ------------------------------------------------------- C35

\* C35: for every column descriptor, the native type ExecuteQuery selects
\* and the type ToDuckDBType gives are a pair for which ToDuckDBValue
\* returns, for a cell that is not null, a value of exactly that type.
C35_CellHasColumnType ==
    (native_type # "none" /\ ~cell.isNull)
        => /\ target_type = ToDuckDBType(column)
           /\ ~converted.is_null
           /\ converted.type = target_type

\* ------------------------------------------------------- C36

\* C36: an entry whose pointer a lookup returned is not destroyed while the
\* caller still uses it: while a thread is inside GetOrLoadTable on the
\* schema entry that GetSchema returned to it (reading the columns, or about
\* to insert into the entry's table cache), the schema cache owns that
\* entry, whatever the other threads do; and no caller comes to use a
\* destroyed entry.
C36_NoUseOfFreedEntry ==
    \A t \in Threads :
        /\ pc[t] \in {"meta", "insert"} => schema_ptr[t] \in CachedEntries
        /\ pc[t] # "crashed"

\* ------------------------------------------------------- C37

\* The order of the mutexes: the catalog cache before every other, the
\* pool before the driver context; the connection and the table cache
\* innermost.
LockRank ==
    [catalog |-> 1, pool |-> 2, ctx |-> 3, conn |-> 3, table |-> 3]

C38_StatementReleasedOnce ==
    stmt_call.prepared = 1 => stmt_call.releases = 1

====
